---- MODULE Spec2Model ----
(***************************************************************************)
(* Audit Log Retrieval Pipeline of the DPoD MCP server                     *)
(* (src/src/dpod_mcp_server/tools/audit/audit_tools.py).                   *)
(*                                                                         *)
(* Nine specifications share this module:                                  *)
(*   Spec         one get_logs run: submit, poll loop, download and        *)
(*                decompress, analyze, cleanup, return; the caller may     *)
(*                abandon the run at any await.                            *)
(*   SpecExtract  the download-and-decompress stage as a function of the   *)
(*                remote body, applied to a content and to its gzip copy.  *)
(*   SpecAnalyze  the analysis stage of the run started on any bounded     *)
(*                temporary file.                                          *)
(*   SpecDate     _convert_date_format applied to a bounded date string    *)
(*                in either role, and applied again to its own output.     *)
(*   SpecResolve  _resolve_service_identifier over a listed tenant, with   *)
(*                the listing answered or failed.                          *)
(*   SpecRequest  manage_audit_logs for generate_export and get_logs up    *)
(*                to the export request: gate, service and actor           *)
(*                resolution, service detection, validation, POST; and     *)
(*                for get_export, get_result and get_status up to the GET  *)
(*                of the job.                                              *)
(*   SpecGate     the scope_validate wrapper around a tool: bypasses,      *)
(*                scope detection, tool and action checks, invocation.     *)
(*   SpecConcurrent  several get_logs runs interleaved at their awaits,    *)
(*                each with its own job and temporary file.                *)
(*   SpecAuth     DPoDAuth.make_authenticated_request: token check,        *)
(*                request, refresh and retry after a 401.                  *)
(*                                                                         *)
(* Modelling conventions.                                                  *)
(*  - Time is in whole seconds; elapsed is time.time() - start_time of     *)
(*    _wait_for_export_completion.  asyncio.sleep(10) takes 10 seconds,    *)
(*    one status request takes 0..MaxRTT seconds, everything else takes    *)
(*    no time.                                                             *)
(*  - ctx.report_progress / ctx.info are awaits that never raise; they     *)
(*    are points where the caller can abandon the run.                     *)
(*  - Abandoning a run raises asyncio.CancelledError at the await the run  *)
(*    is suspended in.  CancelledError derives from BaseException, so no   *)
(*    "except Exception" handler of the pipeline catches it.               *)
(*  - os.unlink of an existing file succeeds; text files are written with  *)
(*    POSIX newline handling.                                              *)
(*  - File contents are sequences of integer tokens: the bytes the code    *)
(*    inspects (LF, CR, space, 0x1f, 0x8b) and whole chunks of text that   *)
(*    hold no such byte (one JSON document, a truncated JSON document).    *)
(*  - Strings the code takes apart are sequences of one-character          *)
(*    strings; <<>> is None or the empty string, which the code treats     *)
(*    alike.  A one-element sequence "uuid:..." is a 36-character UUID.    *)
(*  - calls is the history of API requests sent, in order, each with       *)
(*    whether it was answered with success.                                *)
(***************************************************************************)
EXTENDS Integers, Sequences, FiniteSets, TLC

VARIABLES
    pc,              \* position of the get_logs run
    job_id,          \* jobId of the submitted export, or NoneVal
    nSubmits,        \* export submissions issued by this run (history)
    elapsed,         \* time.time() - start_time in _wait_for_export_completion
    rtt,             \* duration of the latest status request
    nPolls,          \* status requests issued by this run (history)
    resp,            \* the latest poll response (the loop overwrites, never merges)
    timed_out,       \* the poll loop ended through its while condition (history)
    allActive,       \* every poll of this run so far reported ACTIVE (history)
    download_url,    \* what _wait_for_export_completion returned
    body,            \* the artifact served at download_url
    sent,            \* chunks of body streamed so far
    fileExists,      \* the temporary file exists on disk
    file,            \* its content
    temp_file_path,  \* what _download_and_extract_logs returned
    analysis_result, \* what _analyze_audit_logs returned
    result,          \* what _get_audit_logs_complete_workflow returned
    abandoned,       \* the caller abandoned the run
    content,         \* SpecExtract: the content under test
    plainOut,        \* SpecExtract: stage outcome for the plain body
    gzOut,           \* SpecExtract: stage outcome for the gzip-wrapped body
    date_str,        \* SpecDate: the argument of _convert_date_format
    is_start_date,   \* SpecDate: its role flag
    normalized,      \* SpecDate: the value returned for date_str
    renormalized,    \* SpecDate: the value returned for normalized
    service_identifier, \* SpecResolve: the argument of _resolve_service_identifier
    service_list,    \* SpecResolve: the instances GET /v1/service_instances lists
    service_uuid,    \* SpecResolve: what _resolve_service_identifier returned
    req,             \* SpecRequest: the arguments of manage_audit_logs
    args,            \* SpecRequest: what manage_audit_logs hands to the workflow
    export_data,     \* SpecRequest: the body of POST /v1/audit-log-exports
    calls,           \* SpecRequest: the DPoD API requests sent so far (history)
    scope_manager,   \* SpecGate: the fields of the ScopeManager instance
    invocation,      \* SpecGate: the tool and the action of a wrapped call
    gate,            \* SpecGate: what the scope_validate wrapper did and returned
    runs,            \* SpecConcurrent: the locals of each get_logs invocation
    disk,            \* SpecConcurrent: the files of the temporary directory
    jobs,            \* SpecConcurrent: the export jobs of the service, by job id
    access_token,    \* SpecAuth: the token the DPoDAuth instance holds
    auth_call        \* SpecAuth: one call of make_authenticated_request

\* the locals and the history of the poll loop
loopVars == <<elapsed, rtt, nPolls, resp, timed_out, allActive>>

\* the download and its temporary file
fileVars == <<body, sent, fileExists, file, temp_file_path>>

runVars == <<pc, job_id, nSubmits, loopVars, download_url, fileVars, analysis_result,
             result, abandoned>>

extractVars == <<content, plainOut, gzOut>>

dateVars == <<date_str, is_start_date, normalized, renormalized>>

\* the variables of the stage specifications, which a get_logs run leaves alone
resolveVars == <<service_identifier, service_list, service_uuid>>

requestVars == <<req, args, export_data, calls>>

gateVars == <<scope_manager, invocation, gate>>

\* the variables of the specifications of the collaborators of the pipeline
concVars == <<runs, disk, jobs>>

authVars == <<access_token, auth_call>>

collabVars == <<gateVars, concVars, authVars>>

stageVars == <<extractVars, dateVars, resolveVars, requestVars, collabVars>>

vars == <<runVars, stageVars>>

-----------------------------------------------------------------------------
\* Program constants

\* max_wait_time: int = 300
max_wait_time == 300

\* await asyncio.sleep(10)
PollInterval == 10

\* recent_activity keeps logs[:10]
RecentLimit == 10

-----------------------------------------------------------------------------
\* Bounds of the model

\* longest status request, in seconds
MaxRTT == 2

\* longest content of SpecExtract, in tokens
MaxContentLen == 3

\* most service instances of a listing of SpecResolve
MaxInstances == 3

\* most lines of a file of SpecAnalyze
MaxLines == 3

\* longest free-form date string of SpecDate, in characters
MaxDateLen == 3

\* most scopes of a token of SpecGate
MaxScopes == 2

\* concurrent get_logs invocations of SpecConcurrent
MaxRuns == 2

-----------------------------------------------------------------------------
\* Values

\* Python's None
NoneVal == "None"

\* Python truthiness of an optional string
Falsy(x) == x \in {NoneVal, ""}

\* Tokens of file content.  LF, CR, SP, X1F, X8B are single bytes; BAD is text
\* that json.loads rejects (a truncated record); NUM is the text of a JSON
\* number; R1..R4 are the texts of JSON objects.
Tok == [LF |-> 10, CR |-> 13, SP |-> 32, X1F |-> 31, X8B |-> 139,
        BAD |-> 300, NUM |-> 301, R1 |-> 401, R2 |-> 402, R3 |-> 403,
        R4 |-> 404]

\* a key the decoded object does not have
Absent == "<absent>"

ObjTexts == {Tok.R1, Tok.R2, Tok.R3, Tok.R4}

\* json.loads of an object text.  time is 0 when the record has none, else
\* the rank of its fixed-width timestamp.
JsonObject(t) ==
    CASE t = Tok.R1 -> [action |-> "Create Key", status |-> "success",
                        source |-> "cdsp", time |-> 2]
      [] t = Tok.R2 -> [action |-> "Delete User", status |-> "failure",
                        source |-> "cdsp", time |-> 1]
      [] t = Tok.R3 -> [action |-> Absent, status |-> "success",
                        source |-> Absent, time |-> 0]
      [] t = Tok.R4 -> [action |-> "LUNA_DECRYPT", status |-> "success",
                        source |-> "thales/cloudhsm/1", time |-> 3]

\* The trailer of a gzip member (ISIZE) for n tokens of content.
SizeTok(n) == 1000 + n

RECURSIVE Reverse(_)
Reverse(s) == IF s = <<>> THEN <<>> ELSE Append(Reverse(Tail(s)), Head(s))

-----------------------------------------------------------------------------
\* _convert_date_format.  A string is the sequence of its characters.

Digits == <<"0", "1", "2", "3", "4", "5", "6", "7", "8", "9">>

IsDigit(c) == \E d \in DOMAIN Digits : Digits[d] = c

DigitValue(c) == (CHOOSE d \in DOMAIN Digits : Digits[d] = c) - 1

\* 'T' in date_str
HasTime(str) == \E i \in DOMAIN str : str[i] = "T"

\* date_str.replace('/', '-')
ReplaceSlashes(str) == [i \in DOMAIN str |-> IF str[i] = "/" THEN "-" ELSE str[i]]

\* if not date_str.endswith('Z'): date_str += 'Z'
EnsureTrailingZSkipped(str) == str

EnsureTrailingZ(str) ==
    IF str # <<>> /\ str[Len(str)] = "Z" THEN str ELSE Append(str, "Z")

\* date_str.split('-')
RECURSIVE SplitDashFrom(_, _, _)
SplitDashFrom(str, i, cur) ==
    IF i > Len(str) THEN <<cur>>
    ELSE IF str[i] = "-" THEN <<cur>> \o SplitDashFrom(str, i + 1, <<>>)
    ELSE SplitDashFrom(str, i + 1, Append(cur, str[i]))

SplitDash(str) == SplitDashFrom(str, 1, <<>>)

\* The value of a non-empty run of decimal digits.
RECURSIVE DigitsValue(_)
DigitsValue(ds) ==
    IF ds = <<>> THEN 0
    ELSE 10 * DigitsValue(SubSeq(ds, 1, Len(ds) - 1)) + DigitValue(ds[Len(ds)])

\* int(part): ok = FALSE stands for ValueError.  Of what int() accepts the
\* characters of the model can spell an optional "+" followed by digits (a
\* "-" never reaches int(), the string was split on it).
IntParse(part) ==
    LET ds == IF part # <<>> /\ part[1] = "+" THEN Tail(part) ELSE part
    IN IF ds # <<>> /\ \A i \in DOMAIN ds : IsDigit(ds[i])
       THEN [ok |-> TRUE, val |-> DigitsValue(ds)]
       ELSE [ok |-> FALSE, val |-> 0]

\* The decimal digits of a natural number.
RECURSIVE Decimal(_)
Decimal(n) ==
    IF n < 10 THEN <<Digits[n + 1]>>
    ELSE Append(Decimal(n \div 10), Digits[(n % 10) + 1])

\* f"{n:0<width>d}"
RECURSIVE ZeroPad(_, _)
ZeroPad(ds, width) == IF Len(ds) >= width THEN ds ELSE ZeroPad(<<"0">> \o ds, width)

FormatInt(n, width) == ZeroPad(Decimal(n), width)

StartOfDay == <<"T", "0", "0", ":", "0", "0", ":", "0", "0", "Z">>

EndOfDay == <<"T", "2", "3", ":", "5", "9", ":", "5", "9", "Z">>

\* the time appended for the role of the date
TimeOfRoleAlwaysStart(is_start) == StartOfDay

TimeOfRole(is_start) == IF is_start THEN StartOfDay ELSE EndOfDay

\* len(date_str) == 10
DateLength == 10

ConvertDateFormat(str, is_start) ==
    IF str = <<>> THEN str
    ELSE IF HasTime(str) THEN EnsureTrailingZ(ReplaceSlashes(str))
    ELSE LET d == ReplaceSlashes(str)
             parts == SplitDash(d)
         IN IF /\ Len(d) = DateLength
               /\ Len(parts) = 3
               /\ \A i \in 1..3 : IntParse(parts[i]).ok
            THEN FormatInt(IntParse(parts[1]).val, 4) \o <<"-">>
                 \o FormatInt(IntParse(parts[2]).val, 2) \o <<"-">>
                 \o FormatInt(IntParse(parts[3]).val, 2)
                 \o TimeOfRole(is_start)
            ELSE d

-----------------------------------------------------------------------------
\* _resolve_service_identifier (service_tools.py).  Names and identifiers are
\* sequences of characters; a sequence of one "uuid:..." token stands for the
\* 36 characters of a well-formed UUID; the empty sequence is None or "".

UuidTokens == {"uuid:svc1", "uuid:svc2", "uuid:svc3", "uuid:svc4",
               "uuid:client1", "uuid:tenant", "uuid:job1"}

\* len(x) == 36 and '-' in x, and UUID(x) does not raise
IsUuidText(x) == Len(x) = 1 /\ x[1] \in UuidTokens

\* str.lower(), character by character
LowerChar(c) ==
    CASE c = "S" -> "s" [] c = "V" -> "v" [] c = "C" -> "c" [] OTHER -> c

Lower(x) == [i \in DOMAIN x |-> LowerChar(x[i])]

\* One entry of the listing's "content".
Instance(name, id, type, serial) ==
    [name |-> name, service_id |-> id, serviceType |-> type,
     partition_serial_number |-> serial]

\* The index of the first instance of the list whose name passes the test.
FirstMatch(list, Matches(_)) ==
    IF \E i \in DOMAIN list : Matches(list[i].name)
    THEN CHOOSE i \in DOMAIN list :
            /\ Matches(list[i].name)
            /\ \A j \in 1..(i - 1) : ~Matches(list[j].name)
    ELSE 0

Raised == [ok |-> FALSE, id |-> <<>>]

Resolved(id) == [ok |-> TRUE, id |-> id]

\* no resolution has run
ResolveIdle ==
    /\ service_identifier = <<>>
    /\ service_list = <<>>
    /\ service_uuid = Raised

\* the first loop: instance_name == service_identifier
ExactMatch(list, ident) == LET M(n) == n = ident IN FirstMatch(list, M)

\* the second loop: instance_name and instance_name.lower() == ident.lower()
FoldedMatch(list, ident) ==
    LET M(n) == n # <<>> /\ Lower(n) = Lower(ident) IN FirstMatch(list, M)

\* The mutant takes the first instance that matches in either way.
FindServiceFirstOfEither(list, ident) ==
    LET M(n) == n = ident \/ (n # <<>> /\ Lower(n) = Lower(ident))
    IN FirstMatch(list, M)

\* found_service: exact match first, the case-insensitive match otherwise
FindService(list, ident) ==
    IF ExactMatch(list, ident) # 0 THEN ExactMatch(list, ident)
    ELSE FoldedMatch(list, ident)

\* The value returned for the identifier when the listing request yields
\* list (the empty list when the request failed); ok = FALSE: ValueError.
ResolveServiceIdentifier(ident, list) ==
    IF ident = <<>> THEN Raised
    ELSE IF IsUuidText(ident) THEN Resolved(ident)
    ELSE LET found == FindService(list, ident)
         IN IF found = 0 THEN Raised
            ELSE IF list[found].service_id = <<>> THEN Raised
            ELSE Resolved(list[found].service_id)

-----------------------------------------------------------------------------
\* manage_audit_logs up to the export submission: the service and actor
\* resolution, _detect_service_details and _generate_audit_log_export.
\* Every string is a sequence of characters, <<>> is None or "".  A lookup
\* operator is given whether each of its requests is answered with status
\* 200 and returns, with its value, the requests it sent.

\* the requests
ListInstances == "GET /v1/service_instances?page=0&size=100"

GetInstance == "GET /v1/service_instances/{id}"

ListBindings == "GET /v1/service_instances/{id}/bindings"

ListAllInstances == "GET /v1/service_instances"

PostExport == "POST /v1/audit-log-exports"

GetExportJob == "GET /v1/audit-log-exports/{id}"

\* One request sent, and whether it was answered with a success status.
Call(request, ok) == [request |-> request, ok |-> ok]

\* What the tenant holds: a data-protection service, a key vault with a
\* partition, an HSM-family service without a partition serial, and a
\* service of another type.
TenantInstances ==
    << Instance(<<"S", "v", "c">>, <<"uuid:svc1">>, "ctaas", <<>>),
       Instance(<<"k", "v">>, <<"uuid:svc2">>, "key_vault", <<"7">>),
       Instance(<<"d", "b">>, <<"uuid:svc3">>, "luna_hsm_backup", <<>>),
       Instance(<<"s", "f">>, <<"uuid:svc4">>, "salesforce", <<>>) >>

\* The client bindings of a service: one with an id, one without.
TenantBindings ==
    << [name |-> <<"client1">>, id |-> <<"uuid:client1">>],
       [name |-> <<"client2">>, id |-> <<>>] >>

\* hsm_service_types, and the types of the model that contain "hsm"
InHsmFamily(type) ==
    \/ type \in {"hsm", "hsm_key_export", "luna_hsm_backup", "a24_hsm"}
    \/ type \in {"hsm", "key_vault", "hsm_key_export", "ms_sql_server",
                  "java_code_sign", "ms_authenticode", "ms_adcs",
                  "pki_private_key_protection", "digital_signing",
                  "oracle_tde_database", "hyperledger", "luna_dke",
                  "cyberark_digital_vault", "luna_hsm_backup", "payshield_na",
                  "payshield_eu", "p2pe", "codesign-secure", "kt_ses", "kt_pki",
                  "garasign", "pkiaas", "suredrop", "a24_hsm", "ascertia_pki",
                  "codesign", "pk_sign_cloud", "kf_command", "pk_sign_sw",
                  "ven_platform", "signpath"}

\* The index in TenantInstances of the first instance with this service_id.
InstanceOf(id) ==
    IF \E i \in DOMAIN TenantInstances : TenantInstances[i].service_id = id
    THEN CHOOSE i \in DOMAIN TenantInstances :
            /\ TenantInstances[i].service_id = id
            /\ \A j \in 1..(i - 1) : TenantInstances[j].service_id # id
    ELSE 0

\* _resolve_service_identifier, then GET /v1/service_instances/{uuid}:
\* kind "raised" (the resolution raised), "failed" (a status other than 200,
\* or the request raised) or "ok" with the serviceType of the response.
LookupServiceType(name, listOk, getOk) ==
    LET r == ResolveServiceIdentifier(name,
                 IF listOk THEN TenantInstances ELSE <<>>)
        listed == IF name # <<>> /\ ~IsUuidText(name)
                  THEN <<Call(ListInstances, listOk)>> ELSE <<>>
    IN IF ~r.ok
       THEN [kind |-> "raised", type |-> "", id |-> <<>>, calls |-> listed]
       ELSE IF ~getOk \/ InstanceOf(r.id) = 0
       THEN [kind |-> "failed", type |-> "", id |-> r.id,
             calls |-> listed \o <<Call(GetInstance, FALSE)>>]
       ELSE [kind |-> "ok", type |-> TenantInstances[InstanceOf(r.id)].serviceType,
             id |-> r.id, calls |-> listed \o <<Call(GetInstance, TRUE)>>]

\* _resolve_client_identifier: the id of the binding named exactly like the
\* identifier (None when the binding has none), or ValueError.
ResolveClientIdentifier(client, bindingsOk) ==
    IF client = <<>> THEN [ok |-> FALSE, id |-> <<>>, calls |-> <<>>]
    ELSE IF IsUuidText(client) THEN [ok |-> TRUE, id |-> client, calls |-> <<>>]
    ELSE IF ~bindingsOk
    THEN [ok |-> FALSE, id |-> <<>>, calls |-> <<Call(ListBindings, FALSE)>>]
    ELSE IF \E i \in DOMAIN TenantBindings : TenantBindings[i].name = client
    THEN LET i == CHOOSE j \in DOMAIN TenantBindings :
                     /\ TenantBindings[j].name = client
                     /\ \A k \in 1..(j - 1) : TenantBindings[k].name # client
         IN [ok |-> TRUE, id |-> TenantBindings[i].id,
             calls |-> <<Call(ListBindings, TRUE)>>]
    ELSE [ok |-> FALSE, id |-> <<>>, calls |-> <<Call(ListBindings, TRUE)>>]

\* _resolve_actor_identifier: the resolved identifier, or <<>> for None
\* ("use the original").
ResolveActorIdentifier(name, actor, listOk, getOk, bindingsOk) ==
    LET t == LookupServiceType(name, listOk, getOk)
        c == ResolveClientIdentifier(actor, bindingsOk)
    IN IF t.kind = "ok" /\ InHsmFamily(t.type)
       THEN [id |-> IF c.ok THEN c.id ELSE <<>>, calls |-> t.calls \o c.calls]
       ELSE [id |-> <<>>, calls |-> t.calls]

\* manage_audit_logs, when _resolve_actor_identifier returned None: look the
\* service type up again; drop the actor for ctaas, else use it as given.
ActorFallback(name, actor, listOk, getOk) ==
    LET t == LookupServiceType(name, listOk, getOk)
    IN [id |-> IF t.kind = "ok" /\ t.type = "ctaas" THEN <<>> ELSE actor,
        calls |-> t.calls]

\* resolved_actor_id of manage_audit_logs; ok is the outcome of the five
\* requests it may send.
ResolvedActorId(name, actor, ok) ==
    IF actor # <<>> /\ name # <<>>
    THEN LET a == ResolveActorIdentifier(name, actor, ok[1], ok[2], ok[3])
             f == ActorFallback(name, actor, ok[4], ok[5])
         IN IF a.id # <<>> THEN a
            ELSE [id |-> f.id, calls |-> a.calls \o f.calls]
    ELSE [id |-> actor, calls |-> <<>>]

\* resolved_service_name and resolved_source of manage_audit_logs.  The
\* source filters of the model are written in lower case.
ResolvedService(r) ==
    IF r.service_name # <<>> THEN [name |-> r.service_name, source |-> <<>>]
    ELSE IF r.resource_id # <<>> THEN [name |-> r.resource_id, source |-> <<>>]
    ELSE IF Lower(r.source_filter) = <<"cdsp">>
    THEN [name |-> <<>>, source |-> r.source_filter]
    ELSE IF r.source_filter # <<>> /\ r.source_filter[1] = "thales/cloudhsm/"
    THEN [name |-> <<>>, source |-> r.source_filter]
    ELSE [name |-> r.source_filter, source |-> <<>>]

\* The count of the identifiers with source_filter left out.
ServiceIdentifierCountNoSource(r) ==
    Cardinality({k \in {"service_name", "resource_id"} : r[k] # <<>>})

\* service_identifiers = [p for p in [service_name, resource_id, source_filter] if p]
ServiceIdentifierCount(r) ==
    Cardinality({k \in {"service_name", "resource_id", "source_filter"} :
                    r[k] # <<>>})

\* _detect_service_details: None (ok = FALSE), or source and resource_id.
DetectServiceDetails(name, listOk, allOk) ==
    LET r == ResolveServiceIdentifier(name,
                 IF listOk THEN TenantInstances ELSE <<>>)
        listed == IF name # <<>> /\ ~IsUuidText(name)
                  THEN <<Call(ListInstances, listOk)>> ELSE <<>>
        none == [ok |-> FALSE, source |-> <<>>, resource_id |-> <<>>]
    IN IF ~r.ok THEN none @@ [calls |-> listed]
       ELSE IF ~allOk \/ InstanceOf(r.id) = 0
       THEN none @@ [calls |-> listed \o <<Call(ListAllInstances, allOk)>>]
       ELSE LET target == TenantInstances[InstanceOf(r.id)]
            IN [ok |-> TRUE,
                source |-> IF target.serviceType = "ctaas" THEN <<"cdsp">>
                           ELSE IF target.partition_serial_number # <<>>
                           THEN <<"thales/cloudhsm/">>
                                \o target.partition_serial_number
                           ELSE <<>>,
                resource_id |-> r.id,
                calls |-> listed \o <<Call(ListAllInstances, TRUE)>>]

\* strftime("%Y-%m-%dT%H:%M:%S.000Z") of the default window: 24 characters
DefaultDate(day) ==
    <<"2", "0", "2", "6", "-", "1", "1", "-", "0", day,
      "T", "0", "0", ":", "0", "0", ":", "0", "0", ".", "0", "0", "0", "Z">>

\* value.strip()
RECURSIVE StripText(_)
StripText(x) ==
    IF x # <<>> /\ Head(x) = " " THEN StripText(Tail(x))
    ELSE IF x # <<>> /\ x[Len(x)] = " " THEN StripText(SubSeq(x, 1, Len(x) - 1))
    ELSE x

\* validate_string_param(value, ..., min_length=20, max_length=30)
MinDateLength == 20

MaxDateLength == 30

ValidDateText(x) == Len(x) >= MinDateLength /\ Len(x) <= MaxDateLength

\* The checks of _generate_audit_log_export before its request: the error
\* it returns, or NoneVal.
ExportValidation(a) ==
    IF a.tenant_id # <<>> /\ ~IsUuidText(a.tenant_id) THEN "Validation error"
    ELSE IF a.start_date = <<>> \/ a.end_date = <<>>
    THEN "start_date and end_date are required parameters"
    ELSE IF ~ValidDateText(a.start_date) \/ ~ValidDateText(a.end_date)
    THEN "Validation error"
    ELSE NoneVal

\* export_data: "from" and "to", and the filters that are given.
ExportData(a) ==
    [from |-> StripText(a.start_date), to |-> StripText(a.end_date)]
       @@ (IF a.tenant_id # <<>> THEN [tenantId |-> a.tenant_id]
           ELSE [k \in {} |-> <<>>])
       @@ (IF StripText(a.source) # <<>> THEN [source |-> StripText(a.source)]
           ELSE [k \in {} |-> <<>>])
       @@ (IF StripText(a.actor_id) # <<>>
           THEN [actorId |-> StripText(a.actor_id)]
           ELSE [k \in {} |-> <<>>])

\* The read-only gate with every action taken for a read.
WriteActionsNone == {}

\* write_actions = {"generate_export", "get_logs"}
WriteActions == {"generate_export", "get_logs"}

\* read_actions = {"get_export", "get_result", "get_status"}
ReadActions == {"get_export", "get_result", "get_status"}

\* {"success": False, "error": ..., "action": action, "read_only_mode": True}
ReadOnlyRejection ==
    [success |-> FALSE, error |-> "read-only mode", read_only_mode |-> TRUE]

NoArgs == [service_name |-> <<>>, source |-> <<>>, actor_id |-> <<>>,
           start_date |-> <<>>, end_date |-> <<>>, tenant_id |-> <<>>,
           resource_id |-> <<>>]

NoRequest == [action |-> "none", service_name |-> <<>>, resource_id |-> <<>>,
              source_filter |-> <<>>, actor_id |-> <<>>, start_date |-> <<>>,
              end_date |-> <<>>, tenant_id |-> <<>>, export_id |-> <<>>,
              read_only_mode |-> FALSE]

NoExport == [k \in {} |-> <<>>]

\* no request is being served
RequestIdle ==
    /\ req = NoRequest
    /\ args = NoArgs
    /\ export_data = NoExport
    /\ calls = <<>>

-----------------------------------------------------------------------------
\* ScopeManager and the scope_validate wrapper.  A list of scopes is a
\* sequence of scope names; a list of actions is modelled by its set, which
\* the code only tests for membership.

\* self.scope_hierarchy, highest privilege first
ScopeHierarchy == <<"dpod.tenant.api_spadmin", "dpod.tenant.api_appowner",
                    "dpod.tenant.api_service">>

\* The scope names of the model: the hierarchy, an API scope outside it and
\* a scope that is no API scope.
ScopeNames == {ScopeHierarchy[i] : i \in DOMAIN ScopeHierarchy}
              \cup {"dpod.tenant.api_auditor", "openid"}

\* "api_" in scope
IsApiScope(scope) == scope # "openid"

\* [scope for scope in scopes if "api_" in scope]
ApiScopes(scopes) == SelectSeq(scopes, IsApiScope)

AuditActions == {"generate_export", "get_export", "get_result", "get_status",
                 "get_logs"}

\* self.tool_scope_mappings, for three of its tools
ToolScopeMappings ==
    [manage_audit_logs |->
        [dpod_tenant_api_spadmin |-> AuditActions,
         dpod_tenant_api_appowner |-> AuditActions,
         dpod_tenant_api_service |-> {"get_logs"}],
     manage_users |->
        [dpod_tenant_api_spadmin |->
            {"list", "get", "create", "update", "delete", "get_profile",
             "change_password", "reset_mfa_token"},
         dpod_tenant_api_appowner |-> {},
         dpod_tenant_api_service |-> {}],
     manage_subscriber_groups |->
        [dpod_tenant_api_spadmin |-> {},
         dpod_tenant_api_appowner |-> {"get"},
         dpod_tenant_api_service |-> {}]]

\* the key of a scope in the records of ToolScopeMappings
ScopeKey(scope) ==
    CASE scope = "dpod.tenant.api_spadmin" -> "dpod_tenant_api_spadmin"
      [] scope = "dpod.tenant.api_appowner" -> "dpod_tenant_api_appowner"
      [] scope = "dpod.tenant.api_service" -> "dpod_tenant_api_service"
      [] OTHER -> scope

GLOBAL_TOOLS == {"manage_pricing", "check_dpod_availability",
                 "_list_service_categories", "_list_service_types"}

GLOBAL_ACTIONS == {"list_categories", "list_types"}

\* The fields of a ScopeManager after __init__.
NoScopes ==
    [detected_scopes |-> <<>>, api_scopes |-> <<>>, primary_scope |-> NoneVal,
     allowed_tools |-> {}, tool_action_permissions |-> [t \in {} |-> {}]]

\* _determine_primary_scope: the first scope of the hierarchy the token
\* has, else the first API scope.
DeterminePrimaryScope(api_scopes) ==
    LET held == {i \in DOMAIN ScopeHierarchy :
                    \E k \in DOMAIN api_scopes : api_scopes[k] = ScopeHierarchy[i]}
    IN IF held # {}
       THEN ScopeHierarchy[CHOOSE i \in held : \A j \in held : i <= j]
       ELSE IF api_scopes # <<>> THEN api_scopes[1] ELSE "unknown"

\* _build_tool_permissions: a tool is allowed when one of the API scopes is
\* a key of its mapping, whatever the list of actions under that key.
AllowedTools(api_scopes) ==
    {t \in DOMAIN ToolScopeMappings :
        \E k \in DOMAIN api_scopes :
            ScopeKey(api_scopes[k]) \in DOMAIN ToolScopeMappings[t]}

BuildToolPermissions(api_scopes) ==
    [t \in AllowedTools(api_scopes) |->
        [key \in {ScopeKey(api_scopes[k]) : k \in DOMAIN api_scopes}
                 \cap DOMAIN ToolScopeMappings[t] |->
            ToolScopeMappings[t][key]]]

\* detect_scopes for the token information token: an invalid token, a token
\* without an API scope and an exception leave the fields as they are.
DetectScopes(mgr, token) ==
    IF ~token.valid \/ ApiScopes(token.scopes) = <<>> THEN mgr
    ELSE [detected_scopes |-> token.scopes,
          api_scopes |-> ApiScopes(token.scopes),
          primary_scope |-> DeterminePrimaryScope(ApiScopes(token.scopes)),
          allowed_tools |-> AllowedTools(ApiScopes(token.scopes)),
          tool_action_permissions |->
              BuildToolPermissions(ApiScopes(token.scopes))]

\* is_tool_allowed
IsToolAllowed(mgr, tool) == tool \in mgr.allowed_tools

\* get_allowed_actions / is_action_allowed with scope = None: the actions
\* listed for the tool under the primary scope.
AllowedActions(mgr, tool) ==
    IF ~IsToolAllowed(mgr, tool) THEN {}
    ELSE LET tool_permissions == mgr.tool_action_permissions[tool]
         IN IF ScopeKey(mgr.primary_scope) \in DOMAIN tool_permissions
            THEN tool_permissions[ScopeKey(mgr.primary_scope)] ELSE {}

IsActionAllowed(mgr, tool, action) == action \in AllowedActions(mgr, tool)

\* What the wrapper did: it awaited the tool body (invoked), or it returned
\* an error response of its own.
Invoked == [invoked |-> TRUE, scope_restricted |-> FALSE, error |-> NoneVal]

Blocked(msg) == [invoked |-> FALSE, scope_restricted |-> TRUE, error |-> msg]

NotGated == [invoked |-> FALSE, scope_restricted |-> FALSE, error |-> "<not run>"]

\* The wrapper calls the body before it looks at any scope: the tool is
\* global, or the action is one of the global actions.
Bypasses(tool, action) ==
    tool \in GLOBAL_TOOLS \/ (~Falsy(action) /\ action \in GLOBAL_ACTIONS)

\* The wrapper from the filter of the API scopes on, for the manager mgr:
\* the action is checked only when it is truthy.
ScopeDecision(mgr, tool, action) ==
    IF ApiScopes(mgr.detected_scopes) = <<>> THEN Blocked("No API scopes found")
    ELSE IF ~IsToolAllowed(mgr, tool) THEN Blocked("Tool not allowed")
    ELSE IF ~Falsy(action) /\ ~IsActionAllowed(mgr, tool, action)
         THEN Blocked("Action not allowed")
    ELSE Invoked

NoInvocation == [tool |-> "none", action |-> ""]

\* no wrapped call is being served
GateIdle ==
    /\ scope_manager = NoScopes
    /\ invocation = NoInvocation
    /\ gate = NotGated

-----------------------------------------------------------------------------
\* Concurrent get_logs invocations.  Every invocation has its own locals
\* (job_id, download_url, temp_file_path) and its own DPoDAuth instance; the
\* invocations share the temporary directory and the export service.  Job
\* ids, paths and runs are numbered from 1; 0 stands for None.

Runs == 1..MaxRuns

\* The export service issues a job id once.
JobIds == 1..MaxRuns

\* The names the temporary directory can hold.
Paths == 1..MaxRuns

\* The locals of an invocation; read is the content its analyzer was given.
NewRun == [pc |-> "start", job_id |-> 0, download_url |-> 0,
           temp_file_path |-> 0, read |-> 0]

\* A name of the temporary directory: whether a file of that name exists,
\* the run that created it and the job whose artifact it holds.
NoFile == [exists |-> FALSE, owner |-> 0, content |-> 0]

\* A fixed name instead of a name chosen by the system.
TempNamesFixed(d) == {1}

\* NamedTemporaryFile(delete=False): the file is created under a name that
\* does not exist; a name that was unlinked can be chosen again.
TempNames(d) == {p \in Paths : ~d[p].exists}

\* location of the export job j
LocationOf(j) == j

\* the artifact GET <url> serves: that of the job the url belongs to
ArtifactAt(url) == url

\* no concurrent invocation is at work
ConcurrentIdle ==
    /\ runs = [r \in Runs |-> NewRun]
    /\ disk = [p \in Paths |-> NoFile]
    /\ jobs = [j \in JobIds |-> 0]

-----------------------------------------------------------------------------
\* DPoDAuth.make_authenticated_request.  access_token is "none" (no token),
\* "expired" (a token that is_token_expired rejects) or "valid".  A status
\* of 0 stands for no response.

\* What the token endpoint can answer to _refresh_token: a token, a status
\* other than 200 or a transport error, a body without access_token.
RefreshOutcomes == {"ok", "failed", "no_token"}

\* self.access_token after _refresh_token
TokenAfterRefresh(token, outcome) ==
    CASE outcome = "ok" -> "valid"
      [] outcome = "no_token" -> "none"
      [] OTHER -> token

\* if not self.access_token or self.is_token_expired()
NeedsToken(token) == token # "valid"

\* A retry after every client error.
RetriesOnClientError(status) == status >= 400 /\ status < 500

\* if response.status_code == 401
RetriesOn(status) == status = 401

\* The statuses the API answers with in the model.
ApiStatuses == {200, 201, 400, 401, 403, 404, 429, 500, 503}

\* The progress of a call: the requests sent, the token requests sent, the
\* status of the first and of the second response, the outcome of the
\* refresh that followed a 401 ("none" when there was none) and the status
\* returned to the caller.
NoCall == [endpoint |-> "none", sends |-> 0, refreshes |-> 0,
           first_status |-> 0, retry_refresh |-> "none", second_status |-> 0,
           returned |-> 0]

\* no authenticated request is being made
AuthIdle ==
    /\ access_token = "none"
    /\ auth_call = NoCall

\* no collaborator is at work
CollaboratorsIdle == GateIdle /\ ConcurrentIdle /\ AuthIdle

-----------------------------------------------------------------------------
\* gzip framing and the in-place extraction of _download_and_extract_logs

\* A gzip member: the magic number, the encoded payload, the size trailer.
Gzip(c) == <<Tok.X1F, Tok.X8B>> \o Reverse(c) \o <<SizeTok(Len(c))>>

\* magic.startswith(b'\x1f\x8b')
IsGzipMagic(f) == Len(f) >= 2 /\ f[1] = Tok.X1F /\ f[2] = Tok.X8B

\* gzip.open(...).read() on the bytes f: the payload, or a raised exception
\* (BadGzipFile, EOFError) when the member is truncated or inconsistent.
GunzipBytes(f) ==
    IF Len(f) >= 3 /\ IsGzipMagic(f) /\ f[Len(f)] = SizeTok(Len(f) - 3)
    THEN [ok |-> TRUE, data |-> Reverse(SubSeq(f, 3, Len(f) - 1))]
    ELSE [ok |-> FALSE, data |-> <<>>]

\* utf-8 decoding: a lone 0x8b is not valid UTF-8
Utf8Valid(s) == \A i \in DOMAIN s : s[i] # Tok.X8B

\* Text-mode reading (newline=None): "\r\n" and "\r" are read as "\n".
RECURSIVE UniversalNewlines(_)
UniversalNewlines(s) ==
    IF s = <<>> THEN <<>>
    ELSE IF Head(s) = Tok.CR
         THEN IF Len(s) >= 2 /\ s[2] = Tok.LF
              THEN <<Tok.LF>> \o UniversalNewlines(SubSeq(s, 3, Len(s)))
              ELSE <<Tok.LF>> \o UniversalNewlines(Tail(s))
         ELSE <<Head(s)>> \o UniversalNewlines(Tail(s))

\* gzip.open(temp_file_path, 'rt', encoding='utf-8').read()
GzipReadText(f) ==
    LET g == GunzipBytes(f)
    IN IF g.ok /\ Utf8Valid(g.data)
       THEN [ok |-> TRUE, data |-> UniversalNewlines(g.data)]
       ELSE [ok |-> FALSE, data |-> <<>>]

\* The extraction step on the downloaded file f: the file left at the path,
\* or ok = FALSE when an exception is raised.
ExtractInPlace(f) ==
    IF IsGzipMagic(f)
    THEN LET t == GzipReadText(f)
         IN IF t.ok THEN [ok |-> TRUE, file |-> t.data]
                    ELSE [ok |-> FALSE, file |-> f]
    ELSE [ok |-> TRUE, file |-> f]

\* The except handler of _download_and_extract_logs: whether the temporary
\* file exists after it ran, given whether it existed before.
DownloadErrorCleanupNoUnlink(exists) == exists

DownloadErrorCleanup(exists) == FALSE

\* The whole stage on a body that streams completely with status 200: the
\* returned path (NoneVal on failure), and the file left on disk.
DownloadAndExtract(b) ==
    LET x == ExtractInPlace(b)
    IN IF x.ok
       THEN [path |-> "tmp", exists |-> TRUE, file |-> x.file]
       ELSE [path |-> NoneVal, exists |-> DownloadErrorCleanup(TRUE), file |-> <<>>]

-----------------------------------------------------------------------------
\* _analyze_audit_logs

\* Iterating a file opened in text mode: the lines, without their line ends.
RECURSIVE SplitFrom(_, _, _)
SplitFrom(f, i, cur) ==
    IF i > Len(f) THEN (IF cur = <<>> THEN <<>> ELSE <<cur>>)
    ELSE IF f[i] = Tok.LF THEN <<cur>> \o SplitFrom(f, i + 1, <<>>)
    ELSE IF f[i] = Tok.CR
         THEN <<cur>> \o SplitFrom(f, IF i < Len(f) /\ f[i + 1] = Tok.LF
                                      THEN i + 2 ELSE i + 1, <<>>)
    ELSE SplitFrom(f, i + 1, Append(cur, f[i]))

ReadLines(f) == SplitFrom(f, 1, <<>>)

\* str.isspace() holds of the space and of 0x1f (and of the line ends)
IsSpace(t) == t \in {Tok.SP, Tok.X1F, Tok.LF, Tok.CR}

\* line.strip()
RECURSIVE StripLeft(_)
StripLeft(l) == IF l # <<>> /\ IsSpace(Head(l)) THEN StripLeft(Tail(l)) ELSE l

Strip(l) == Reverse(StripLeft(Reverse(StripLeft(l))))

NoObject == [action |-> Absent, status |-> Absent, source |-> Absent, time |-> 0]

\* json.loads(line) of a stripped, non-empty line: ok = FALSE stands for
\* JSONDecodeError; isObj tells a decoded dict from any other JSON value.
JsonLoads(l) ==
    IF Len(l) = 1 /\ l[1] \in ObjTexts
    THEN [ok |-> TRUE, isObj |-> TRUE, obj |-> JsonObject(l[1])]
    ELSE IF \A i \in DOMAIN l : l[i] = Tok.NUM
         THEN [ok |-> TRUE, isObj |-> FALSE, obj |-> NoObject]
         ELSE [ok |-> FALSE, isObj |-> FALSE, obj |-> NoObject]

\* The first loop: blank lines are skipped, lines that fail to decode are
\* logged and skipped, every decoded value is appended to logs.
RECURSIVE CollectLogs(_)
CollectLogs(lines) ==
    IF lines = <<>> THEN <<>>
    ELSE LET line == Strip(Head(lines))
             rest == CollectLogs(Tail(lines))
         IN IF line = <<>> THEN rest
            ELSE IF JsonLoads(line).ok THEN <<JsonLoads(line)>> \o rest
            ELSE rest

\* log.get(key, "UNKNOWN")
GetOrUnknown(v) == IF v = Absent THEN "UNKNOWN" ELSE v

EmptyCounts == [k \in {} |-> 0]

\* counts[key] = counts.get(key, 0) + 1
Bump(counts, k) ==
    IF k \in DOMAIN counts THEN [counts EXCEPT ![k] = @ + 1]
    ELSE (k :> 1) @@ counts

\* The running counters after the first n logs, keyed by one field.
RECURSIVE Tally(_, _, _)
Tally(logs, field, n) ==
    IF n = 0 THEN EmptyCounts
    ELSE Bump(Tally(logs, field, n - 1), GetOrUnknown(logs[n].obj[field]))

\* The running earliest / latest after the first n logs (0: None).
RECURSIVE Earliest(_, _)
Earliest(logs, n) ==
    IF n = 0 THEN 0
    ELSE LET e == Earliest(logs, n - 1)
             t == logs[n].obj.time
         IN IF t # 0 /\ (e = 0 \/ t < e) THEN t ELSE e

RECURSIVE Latest(_, _)
Latest(logs, n) ==
    IF n = 0 THEN 0
    ELSE LET e == Latest(logs, n - 1)
             t == logs[n].obj.time
         IN IF t # 0 /\ (e = 0 \/ t > e) THEN t ELSE e

\* The last ten records instead of the first ten.
RecentActivityLast(logs) ==
    IF Len(logs) > RecentLimit
    THEN SubSeq(logs, Len(logs) - RecentLimit + 1, Len(logs)) ELSE logs

\* logs[:10] if len(logs) > 10 else logs
RecentActivity(logs) ==
    IF Len(logs) > RecentLimit THEN SubSeq(logs, 1, RecentLimit) ELSE logs

\* LUNA_ACTION_DESCRIPTIONS.get(action): the static description of an action
\* code, or Absent.  Of the actions of the model only LUNA_DECRYPT is in the
\* table.
LunaActionDescription(action) ==
    IF action = "LUNA_DECRYPT" THEN "Decrypts encrypted data" ELSE Absent

\* action_summary: the count of every action, and its description when the
\* table has one (description = Absent: the entry has no "description" key).
ActionSummary(actions) ==
    [k \in DOMAIN actions |->
        [count |-> actions[k], description |-> LunaActionDescription(k)]]

AnalysisValue(err, msg, total, logs) ==
    [error |-> err, message |-> msg, total_logs |-> total,
     earliest |-> Earliest(logs, Len(logs)), latest |-> Latest(logs, Len(logs)),
     actions |-> Tally(logs, "action", Len(logs)),
     all_actions |-> ActionSummary(Tally(logs, "action", Len(logs))),
     statuses |-> Tally(logs, "status", Len(logs)),
     sources |-> Tally(logs, "source", Len(logs)),
     recent_activity |-> RecentActivity(logs)]

\* The analyzer with the empty case reported as a failure.
AnalyzeAuditLogsEmptyAsError(f) ==
    IF ~Utf8Valid(f)
    THEN AnalysisValue("Failed to analyze audit logs", NoneVal, 0, <<>>)
    ELSE LET logs == CollectLogs(ReadLines(f))
         IN IF logs = <<>> \/ \E i \in DOMAIN logs : ~logs[i].isObj
            THEN AnalysisValue("Failed to analyze audit logs", NoneVal, 0, <<>>)
            ELSE AnalysisValue(NoneVal, NoneVal, Len(logs), logs)

\* The value returned for the file content f.  The except handler turns
\* every exception (UnicodeDecodeError while reading, AttributeError from
\* log.get on a decoded value that is no dict) into an error value.
AnalyzeAuditLogs(f) ==
    IF ~Utf8Valid(f)
    THEN AnalysisValue("Failed to analyze audit logs", NoneVal, 0, <<>>)
    ELSE LET logs == CollectLogs(ReadLines(f))
         IN IF logs = <<>>
            THEN AnalysisValue(NoneVal,
                     "No audit logs found in the specified time range", 0, <<>>)
            ELSE IF \E i \in DOMAIN logs : ~logs[i].isObj
            THEN AnalysisValue("Failed to analyze audit logs", NoneVal, 0, <<>>)
            ELSE AnalysisValue(NoneVal, NoneVal, Len(logs), logs)

\* Sum of the counts of a histogram.
RECURSIVE SumCounts(_)
SumCounts(c) ==
    IF DOMAIN c = {} THEN 0
    ELSE LET k == CHOOSE x \in DOMAIN c : TRUE
         IN c[k] + SumCounts([x \in DOMAIN c \ {k} |-> c[x]])

-----------------------------------------------------------------------------
\* _format_audit_summary_for_display.  The returned string is modelled by
\* its kind and by the action names that occur in it:
\*   "error"        "Error: <the analysis error>"
\*   "empty"        "No audit logs found in the specified time range"
\*   "format_error" "Error formatting summary: <exception>"
\*   "report"       the rendered report

FormattedText(kind, names) == [kind |-> kind, actions |-> names]

\* details["description"] raises KeyError for an entry without that key.
\* The model has fewer than ten distinct actions, so most_common_actions
\* (sorted_actions[:10]) holds every entry of all_actions.
RaisesKeyError(all_actions) ==
    \E k \in DOMAIN all_actions : all_actions[k].description = Absent

FormatAuditSummary(a) ==
    IF a.error # NoneVal THEN FormattedText("error", {})
    ELSE IF a.total_logs = 0 THEN FormattedText("empty", {})
    ELSE IF RaisesKeyError(a.all_actions) THEN FormattedText("format_error", {})
    ELSE FormattedText("report", DOMAIN a.all_actions)

-----------------------------------------------------------------------------
\* The remote side

Locations == {NoneVal, "", "loc1", "loc2"}

HttpResp(status, state, location) ==
    [kind |-> "http", status |-> status, state |-> state, location |-> location]

NoResp == [kind |-> "none", status |-> 0, state |-> NoneVal, location |-> NoneVal]

\* the status request raised (transport error, failed token refresh) or
\* response.json() raised
ExcResp == [kind |-> "exception", status |-> 0, state |-> NoneVal,
            location |-> NoneVal]

\* What GET /v1/audit-log-exports/{job_id} can answer.
PollResponses ==
    {HttpResp(200, st, NoneVal) : st \in {"ACTIVE", "FAILED", "CANCELLED"}}
    \cup {HttpResp(200, "SUCCEEDED", l) : l \in Locations}
    \cup {HttpResp(c, NoneVal, NoneVal) : c \in {202, 503}}

\* The artifacts GET <location> serves in Spec.
RemoteBodies ==
    { <<Tok.R1, Tok.LF, Tok.R2, Tok.LF>>,
      Gzip(<<Tok.R1, Tok.LF, Tok.R2, Tok.LF>>),
      <<Tok.X1F, Tok.X8B, Tok.R1>>,
      <<Tok.R1, Tok.LF, Tok.BAD>>,
      <<Tok.NUM, Tok.LF>>,
      <<Tok.BAD, Tok.LF, Tok.SP, Tok.LF>>,
      <<>> }

-----------------------------------------------------------------------------
\* _wait_for_export_completion

\* while time.time() - start_time < max_wait_time
LoopGuardInclusive(e) == e <= max_wait_time

LoopGuard(e) == e < max_wait_time

\* What the loop body does with a response: return a value (ret) or go on to
\* the sleep.
PollDecisionIgnoringCancelled(r) ==
    IF r.status # 200 THEN [ret |-> TRUE, url |-> NoneVal]
    ELSE IF r.state = "SUCCEEDED" /\ ~Falsy(r.location)
         THEN [ret |-> TRUE, url |-> r.location]
    ELSE IF r.state = "FAILED" THEN [ret |-> TRUE, url |-> NoneVal]
    ELSE [ret |-> FALSE, url |-> NoneVal]

\* The loop handing back one fixed URL for every finished export.
\* The decision with `if state == "SUCCEEDED"` alone.
PollDecisionAnySucceeded(r) ==
    IF r.status # 200 THEN [ret |-> TRUE, url |-> NoneVal]
    ELSE IF r.state = "SUCCEEDED" THEN [ret |-> TRUE, url |-> r.location]
    ELSE IF r.state \in {"FAILED", "CANCELLED"} THEN [ret |-> TRUE, url |-> NoneVal]
    ELSE [ret |-> FALSE, url |-> NoneVal]

PollDecisionFixedUrl(r) ==
    IF r.status # 200 THEN [ret |-> TRUE, url |-> NoneVal]
    ELSE IF r.state = "SUCCEEDED" /\ ~Falsy(r.location)
         THEN [ret |-> TRUE, url |-> "loc1"]
    ELSE IF r.state \in {"FAILED", "CANCELLED"} THEN [ret |-> TRUE, url |-> NoneVal]
    ELSE [ret |-> FALSE, url |-> NoneVal]

PollDecision(r) ==
    IF r.status # 200 THEN [ret |-> TRUE, url |-> NoneVal]
    ELSE IF r.state = "SUCCEEDED" /\ ~Falsy(r.location)
         THEN [ret |-> TRUE, url |-> r.location]
    ELSE IF r.state = "FAILED" THEN [ret |-> TRUE, url |-> NoneVal]
    ELSE IF r.state = "CANCELLED" THEN [ret |-> TRUE, url |-> NoneVal]
    ELSE [ret |-> FALSE, url |-> NoneVal]

-----------------------------------------------------------------------------
\* Results of _get_audit_logs_complete_workflow

Failure(msg) == [success |-> FALSE, error |-> msg]

Success == [success |-> TRUE, error |-> NoneVal]

NoResult == [success |-> FALSE, error |-> "<no result>"]

\* if not download_url: return {...}
NoUrlResult == Failure("Export job failed or timed out")

\* if not temp_file_path: return {...}
NoFileResult == Failure("Failed to download or extract audit logs")

\* os.unlink(temp_file_path) after the analysis: whether the file exists
\* afterwards.
UnlinkSkipped(exists) == exists

UnlinkAfterAnalysis(exists) == FALSE

NoAnalysis == AnalysisValue(NoneVal, NoneVal, 0, <<>>)

\* return {"success": True, "export_job": ..., "analysis": analysis_result,
\*         "message": ..., "formatted_summary": ...}
WorkflowSuccess(a) ==
    [success |-> TRUE, error |-> NoneVal, analysis |-> a,
     formatted_summary |-> FormatAuditSummary(a)]

-----------------------------------------------------------------------------
\* One get_logs run

Init ==
    /\ pc = "start"
    /\ job_id = NoneVal
    /\ nSubmits = 0
    /\ elapsed = 0
    /\ rtt = 0
    /\ nPolls = 0
    /\ resp = NoResp
    /\ timed_out = FALSE
    /\ allActive = TRUE
    /\ download_url = NoneVal
    /\ body = <<>>
    /\ sent = 0
    /\ fileExists = FALSE
    /\ file = <<>>
    /\ temp_file_path = NoneVal
    /\ analysis_result = NoAnalysis
    /\ result = NoResult
    /\ abandoned = FALSE
    /\ content = <<>>
    /\ plainOut = [path |-> "<not run>", exists |-> FALSE, file |-> <<>>]
    /\ gzOut = [path |-> "<not run>", exists |-> FALSE, file |-> <<>>]
    /\ date_str = <<>>
    /\ is_start_date = TRUE
    /\ normalized = <<>>
    /\ renormalized = <<>>
    /\ ResolveIdle
    /\ RequestIdle
    /\ CollaboratorsIdle

Return(r) == pc' = "returned" /\ result' = r

\* Step 3: the POST of _generate_audit_log_export is sent.
StartSubmit ==
    /\ pc = "start"
    /\ pc' = "submit_req"
    /\ nSubmits' = nSubmits + 1
    /\ UNCHANGED <<job_id, loopVars, download_url, fileVars, analysis_result,
                   result, abandoned, stageVars>>

\* The job id test with every value taken for a job id.
JobIdMissingNever(j) == FALSE

\* if not job_id
JobIdMissing(j) == Falsy(j)

\* The submission succeeded: export_job carries the jobId of the response,
\* which may be missing.
SubmitAccepted ==
    /\ pc = "submit_req"
    /\ \E j \in {"job1", NoneVal} :
         /\ job_id' = j
         /\ IF JobIdMissing(j)
            THEN Return(Failure("No job ID received from export generation"))
            ELSE pc' = "wait_check" /\ UNCHANGED result
    /\ elapsed' = 0
    /\ UNCHANGED <<nSubmits, rtt, nPolls, resp, timed_out, allActive, download_url,
                   fileVars, analysis_result, abandoned, stageVars>>

\* The submission failed: a status other than 200/201, or an exception.
SubmitRejected ==
    /\ pc = "submit_req"
    /\ \E msg \in {"Failed to generate audit log export", "exception"} :
         Return(Failure(msg))
    /\ UNCHANGED <<job_id, nSubmits, loopVars, download_url, fileVars, analysis_result,
                   abandoned, stageVars>>

\* The while condition holds: the status request is sent.
WaitLoopEnter ==
    /\ pc = "wait_check"
    /\ LoopGuard(elapsed)
    /\ pc' = "poll_req"
    /\ nPolls' = nPolls + 1
    /\ rtt' = 0
    /\ UNCHANGED <<job_id, nSubmits, elapsed, resp, timed_out, allActive, download_url,
                   fileVars, analysis_result, result, abandoned, stageVars>>

\* The while condition fails: "Export job timed out", return None.
WaitLoopTimeout ==
    /\ pc = "wait_check"
    /\ ~LoopGuard(elapsed)
    /\ timed_out' = TRUE
    /\ download_url' = NoneVal
    /\ pc' = "wait_return"
    /\ UNCHANGED <<job_id, nSubmits, elapsed, rtt, nPolls, resp, allActive, fileVars,
                   analysis_result, result, abandoned, stageVars>>

\* A response to the status request arrives after d seconds.
PollResponse ==
    /\ pc = "poll_req"
    /\ \E r \in PollResponses, d \in 0..MaxRTT :
         /\ elapsed' = elapsed + d
         /\ rtt' = d
         /\ resp' = r
         /\ allActive' = (allActive /\ r.status = 200 /\ r.state = "ACTIVE")
         /\ IF PollDecision(r).ret
            THEN pc' = "wait_return" /\ download_url' = PollDecision(r).url
            ELSE pc' = "poll_sleep" /\ UNCHANGED download_url
    /\ UNCHANGED <<job_id, nSubmits, nPolls, timed_out, fileVars, analysis_result,
                   result, abandoned, stageVars>>

\* The status request raises after d seconds: except Exception, then sleep.
PollException ==
    /\ pc = "poll_req"
    /\ \E d \in 0..MaxRTT :
         /\ elapsed' = elapsed + d
         /\ rtt' = d
    /\ resp' = ExcResp
    /\ allActive' = FALSE
    /\ pc' = "poll_sleep"
    /\ UNCHANGED <<job_id, nSubmits, nPolls, timed_out, download_url, fileVars,
                   analysis_result, result, abandoned, stageVars>>

\* await asyncio.sleep(10) is over.
PollSleep ==
    /\ pc = "poll_sleep"
    /\ elapsed' = elapsed + PollInterval
    /\ pc' = "wait_check"
    /\ UNCHANGED <<job_id, nSubmits, rtt, nPolls, resp, timed_out, allActive,
                   download_url, fileVars, analysis_result, result, abandoned,
                   stageVars>>

\* Step 4 returns without a URL: the run fails.
WaitReturnedNone ==
    /\ pc = "wait_return"
    /\ Falsy(download_url)
    /\ Return(NoUrlResult)
    /\ UNCHANGED <<job_id, nSubmits, loopVars, download_url, fileVars, analysis_result,
                   abandoned, stageVars>>

\* Step 4 returns a URL: the locals of the poll loop are gone, step 5 begins.
WaitReturnedUrl ==
    /\ pc = "wait_return"
    /\ ~Falsy(download_url)
    /\ elapsed' = 0 /\ rtt' = 0 /\ nPolls' = 0 /\ resp' = NoResp
    /\ pc' = "dl_create"
    /\ UNCHANGED <<job_id, nSubmits, timed_out, allActive, download_url, fileVars,
                   analysis_result, result, abandoned, stageVars>>

-----------------------------------------------------------------------------
\* _download_and_extract_logs.  file keeps the bytes last written to the
\* temporary path; it is the content of the file while fileExists holds.

\* except Exception: unlink the temporary file if its path is known, return None
DownloadFailed ==
    /\ fileExists' = DownloadErrorCleanup(fileExists)
    /\ temp_file_path' = NoneVal
    /\ pc' = "dl_return"

\* NamedTemporaryFile(delete=False) creates the empty file; the GET is sent.
DownloadCreateTemp ==
    /\ pc = "dl_create"
    /\ fileExists' = TRUE
    /\ file' = <<>>
    /\ pc' = "dl_req"
    /\ UNCHANGED <<job_id, nSubmits, loopVars, download_url, body, sent, temp_file_path,
                   analysis_result, result, abandoned, stageVars>>

\* NamedTemporaryFile raises: no file, and no path in locals().
DownloadCreateTempFails ==
    /\ pc = "dl_create"
    /\ DownloadFailed
    /\ UNCHANGED <<job_id, nSubmits, loopVars, download_url, body, sent, file,
                   analysis_result, result, abandoned, stageVars>>

\* The response has status 200: open(temp_file_path, 'wb'), start streaming.
DownloadResponse ==
    /\ pc = "dl_req"
    /\ \E b \in RemoteBodies : body' = b
    /\ sent' = 0
    /\ file' = <<>>
    /\ pc' = "streaming"
    /\ UNCHANGED <<job_id, nSubmits, loopVars, download_url, fileExists, temp_file_path,
                   analysis_result, result, abandoned, stageVars>>

\* The response has another status, or the request raises.
DownloadRefused ==
    /\ pc = "dl_req"
    /\ DownloadFailed
    /\ UNCHANGED <<job_id, nSubmits, loopVars, download_url, body, sent, file,
                   analysis_result, result, abandoned, stageVars>>

\* f.write(chunk)
StreamChunk ==
    /\ pc = "streaming"
    /\ sent < Len(body)
    /\ file' = Append(file, body[sent + 1])
    /\ sent' = sent + 1
    /\ UNCHANGED <<pc, job_id, nSubmits, loopVars, download_url, body, fileExists,
                   temp_file_path, analysis_result, result, abandoned,
                   stageVars>>

\* The stream breaks before the body is complete.
StreamError ==
    /\ pc = "streaming"
    /\ sent < Len(body)
    /\ DownloadFailed
    /\ UNCHANGED <<job_id, nSubmits, loopVars, download_url, body, sent, file,
                   analysis_result, result, abandoned, stageVars>>

\* The stream is complete: check the magic number, extract in place, return
\* the path; an exception of the extraction goes to the handler.
StreamEnd ==
    /\ pc = "streaming"
    /\ sent = Len(body)
    /\ IF ExtractInPlace(file).ok
       THEN /\ file' = ExtractInPlace(file).file
            /\ temp_file_path' = "tmp"
            /\ pc' = "dl_return"
            /\ UNCHANGED fileExists
       ELSE DownloadFailed /\ UNCHANGED file
    /\ UNCHANGED <<job_id, nSubmits, loopVars, download_url, body, sent, analysis_result,
                   result, abandoned, stageVars>>

\* Step 5 returned None.
DownloadReturnedNone ==
    /\ pc = "dl_return"
    /\ Falsy(temp_file_path)
    /\ Return(NoFileResult)
    /\ UNCHANGED <<job_id, nSubmits, loopVars, download_url, fileVars, analysis_result,
                   abandoned, stageVars>>

\* Step 5 returned the path: report progress, then step 6.
DownloadReturnedPath ==
    /\ pc = "dl_return"
    /\ ~Falsy(temp_file_path)
    /\ pc' = "analyze"
    /\ UNCHANGED <<job_id, nSubmits, loopVars, download_url, fileVars, analysis_result,
                   result, abandoned, stageVars>>

\* Step 6: _analyze_audit_logs (which has no await), then os.unlink.
Analyze ==
    /\ pc = "analyze"
    /\ analysis_result' = AnalyzeAuditLogs(file)
    /\ fileExists' = UnlinkAfterAnalysis(fileExists)
    /\ pc' = "finish"
    /\ UNCHANGED <<job_id, nSubmits, loopVars, download_url, body, sent, file,
                   temp_file_path, result, abandoned, stageVars>>

\* The last progress reports, then return {"success": True, ...}.
Finish ==
    /\ pc = "finish"
    /\ Return(WorkflowSuccess(analysis_result))
    /\ UNCHANGED <<job_id, nSubmits, loopVars, download_url, fileVars, analysis_result,
                   abandoned, stageVars>>

\* The positions at which the run is suspended in an await.
AwaitPoints == {"start", "submit_req", "poll_req", "poll_sleep", "dl_req",
                "streaming", "analyze", "finish"}

\* The caller abandons the run: CancelledError is raised at the await and
\* leaves the workflow through every "except Exception" handler.
Abandon ==
    /\ pc \in AwaitPoints
    /\ pc' = "cancelled"
    /\ abandoned' = TRUE
    /\ UNCHANGED <<job_id, nSubmits, loopVars, download_url, fileVars, analysis_result,
                   result, stageVars>>

Next ==
    \/ StartSubmit
    \/ SubmitAccepted
    \/ SubmitRejected
    \/ WaitLoopEnter
    \/ WaitLoopTimeout
    \/ PollResponse
    \/ PollException
    \/ PollSleep
    \/ WaitReturnedNone
    \/ WaitReturnedUrl
    \/ DownloadCreateTemp
    \/ DownloadCreateTempFails
    \/ DownloadResponse
    \/ DownloadRefused
    \/ StreamChunk
    \/ StreamError
    \/ StreamEnd
    \/ DownloadReturnedNone
    \/ DownloadReturnedPath
    \/ Analyze
    \/ Finish
    \/ Abandon

Spec == Init /\ [][Next]_vars

-----------------------------------------------------------------------------
\* SpecExtract: the download-and-decompress stage on a content and on its
\* gzip-wrapped copy

ContentAlphabet == {Tok.R1, Tok.LF, Tok.CR, Tok.X1F, Tok.X8B}

Contents == UNION {[1..n -> ContentAlphabet] : n \in 0..MaxContentLen}

NotRun == [path |-> "<not run>", exists |-> FALSE, file |-> <<>>]

InitExtract ==
    /\ pc = "extract"
    /\ job_id = NoneVal
    /\ nSubmits = 0
    /\ elapsed = 0
    /\ rtt = 0
    /\ nPolls = 0
    /\ resp = NoResp
    /\ timed_out = FALSE
    /\ allActive = TRUE
    /\ download_url = NoneVal
    /\ body = <<>>
    /\ sent = 0
    /\ fileExists = FALSE
    /\ file = <<>>
    /\ temp_file_path = NoneVal
    /\ analysis_result = NoAnalysis
    /\ result = NoResult
    /\ abandoned = FALSE
    /\ content \in Contents
    /\ plainOut = NotRun
    /\ gzOut = NotRun
    /\ date_str = <<>>
    /\ is_start_date = TRUE
    /\ normalized = <<>>
    /\ renormalized = <<>>
    /\ ResolveIdle
    /\ RequestIdle
    /\ CollaboratorsIdle

\* The remote body is the content itself.
ExtractPlain ==
    /\ plainOut = NotRun
    /\ plainOut' = DownloadAndExtract(content)
    /\ UNCHANGED <<runVars, content, gzOut, dateVars, resolveVars, requestVars,
                 collabVars>>

\* The remote body is the gzip-wrapped content.
ExtractGzip ==
    /\ gzOut = NotRun
    /\ gzOut' = DownloadAndExtract(Gzip(content))
    /\ UNCHANGED <<runVars, content, plainOut, dateVars, resolveVars,
                 requestVars, collabVars>>

NextExtract == ExtractPlain \/ ExtractGzip

SpecExtract == InitExtract /\ [][NextExtract]_vars

-----------------------------------------------------------------------------
\* SpecAnalyze: the run at step 6, on any bounded temporary file

LineKinds == { <<>>, <<Tok.SP>>, <<Tok.R1>>, <<Tok.R2>>,
               <<Tok.SP, Tok.R3, Tok.SP>>, <<Tok.R4>>, <<Tok.BAD>>,
               <<Tok.NUM>> }

\* The lines joined by "\n"; the last line has no line end.
RECURSIVE JoinLines(_)
JoinLines(ls) ==
    IF ls = <<>> THEN <<>>
    ELSE IF Len(ls) = 1 THEN ls[1]
    ELSE ls[1] \o <<Tok.LF>> \o JoinLines(Tail(ls))

\* The export of the end-to-end scenario: ten "Create Key" / success
\* records, then two "Delete User" / failure records, one per line.
ScenarioExport ==
    [i \in 1..24 |-> IF i % 2 = 0 THEN Tok.LF
                     ELSE IF i <= 20 THEN Tok.R1 ELSE Tok.R2]

AnalyzeFiles ==
    {JoinLines(ls) : ls \in UNION {[1..n -> LineKinds] : n \in 0..MaxLines}}
    \cup {ScenarioExport}

InitAnalyze ==
    /\ pc = "analyze"
    /\ job_id = "job1"
    /\ nSubmits = 1
    /\ elapsed = 0
    /\ rtt = 0
    /\ nPolls = 0
    /\ resp = NoResp
    /\ timed_out = FALSE
    /\ allActive = TRUE
    /\ download_url = "loc1"
    /\ file \in AnalyzeFiles
    /\ body = file
    /\ sent = Len(file)
    /\ fileExists = TRUE
    /\ temp_file_path = "tmp"
    /\ analysis_result = NoAnalysis
    /\ result = NoResult
    /\ abandoned = FALSE
    /\ content = <<>>
    /\ plainOut = NotRun
    /\ gzOut = NotRun
    /\ date_str = <<>>
    /\ is_start_date = TRUE
    /\ normalized = <<>>
    /\ renormalized = <<>>
    /\ ResolveIdle
    /\ RequestIdle
    /\ CollaboratorsIdle

NextAnalyze == Analyze \/ Finish

SpecAnalyze == InitAnalyze /\ [][NextAnalyze]_vars

-----------------------------------------------------------------------------
\* SpecDate: _convert_date_format applied to a date string, then to its own
\* result with the same role flag

\* The inputs: every string of up to MaxDateLen characters, and year, month
\* and day texts joined by separators, with or without a time.
DateInputs ==
    LET alphabet == {"2", "0", "-", "/", "T", "Z", "x"}
        seps == {<<"-">>, <<"/">>}
        years == {<<"2", "0", "2", "5">>, <<"0", "0", "0", "1">>, <<"0", "4">>,
                  <<"+", "0", "2", "5">>, <<"2", "0", "x", "5">>}
        months == {<<"0", "4">>, <<"1", "2">>, <<"4">>, <<"0", "1">>}
        days == {<<"0", "1">>, <<"3", "1">>, <<"1">>, <<"0", "0", "1">>,
                 <<"2", "0", "2", "5">>}
        times == {<<>>, <<"Z">>, <<"T">>,
                  <<"T", "1", "2", ":", "3", "0", ":", "0", "0">>, StartOfDay}
    IN UNION {[1..n -> alphabet] : n \in 0..MaxDateLen}
       \cup {y \o s1 \o m \o s2 \o d \o t :
                y \in years, s1 \in seps, m \in months,
                s2 \in seps, d \in days, t \in times}

InitDate ==
    /\ pc = "date"
    /\ job_id = NoneVal
    /\ nSubmits = 0
    /\ elapsed = 0
    /\ rtt = 0
    /\ nPolls = 0
    /\ resp = NoResp
    /\ timed_out = FALSE
    /\ allActive = TRUE
    /\ download_url = NoneVal
    /\ body = <<>>
    /\ sent = 0
    /\ fileExists = FALSE
    /\ file = <<>>
    /\ temp_file_path = NoneVal
    /\ analysis_result = NoAnalysis
    /\ result = NoResult
    /\ abandoned = FALSE
    /\ content = <<>>
    /\ plainOut = NotRun
    /\ gzOut = NotRun
    /\ date_str \in DateInputs
    /\ is_start_date \in BOOLEAN
    /\ normalized = <<>>
    /\ renormalized = <<>>
    /\ ResolveIdle
    /\ RequestIdle
    /\ CollaboratorsIdle

\* _convert_date_format(date_str, is_start_date)
Normalize ==
    /\ pc = "date"
    /\ normalized' = ConvertDateFormat(date_str, is_start_date)
    /\ pc' = "normalized"
    /\ UNCHANGED <<job_id, nSubmits, loopVars, download_url, fileVars, analysis_result,
                   result, abandoned, extractVars, date_str, is_start_date,
                   renormalized, resolveVars, requestVars, collabVars>>

\* _convert_date_format(normalized, is_start_date)
NormalizeAgain ==
    /\ pc = "normalized"
    /\ renormalized' = ConvertDateFormat(normalized, is_start_date)
    /\ pc' = "renormalized"
    /\ UNCHANGED <<job_id, nSubmits, loopVars, download_url, fileVars, analysis_result,
                   result, abandoned, extractVars, date_str, is_start_date,
                   normalized, resolveVars, requestVars, collabVars>>

NextDate == Normalize \/ NormalizeAgain

SpecDate == InitDate /\ [][NextDate]_vars

-----------------------------------------------------------------------------
\* SpecResolve: _resolve_service_identifier on any bounded listing

\* The state of a get_logs run that has not started, and of the stages.
RunIdle ==
    /\ job_id = NoneVal
    /\ nSubmits = 0
    /\ elapsed = 0
    /\ rtt = 0
    /\ nPolls = 0
    /\ resp = NoResp
    /\ timed_out = FALSE
    /\ allActive = TRUE
    /\ download_url = NoneVal
    /\ body = <<>>
    /\ sent = 0
    /\ fileExists = FALSE
    /\ file = <<>>
    /\ temp_file_path = NoneVal
    /\ analysis_result = NoAnalysis
    /\ result = NoResult
    /\ abandoned = FALSE
    /\ content = <<>>
    /\ plainOut = NotRun
    /\ gzOut = NotRun
    /\ date_str = <<>>
    /\ is_start_date = TRUE
    /\ normalized = <<>>
    /\ renormalized = <<>>

\* The instances a listing is drawn from: three names that differ in case
\* only, another name, an entry without a name and one without a service_id.
ListedInstances ==
    { Instance(<<"S", "v", "c">>, <<"uuid:svc1">>, "ctaas", <<>>),
      Instance(<<"s", "v", "c">>, <<"uuid:svc2">>, "key_vault", <<"7">>),
      Instance(<<"S", "V", "C">>, <<"uuid:svc3">>, "hsm", <<>>),
      Instance(<<"d", "b">>, <<"uuid:svc3">>, "hsm", <<"8">>),
      Instance(<<>>, <<"uuid:svc2">>, "hsm", <<>>),
      Instance(<<"s", "v", "c">>, <<>>, "hsm", <<>>) }

ServiceIdentifiers ==
    { <<>>, <<"S", "v", "c">>, <<"s", "v", "c">>, <<"s", "V", "c">>,
      <<"d", "b">>, <<"x">>, <<"uuid:svc1">> }

InitResolve ==
    /\ pc = "resolve"
    /\ RunIdle
    /\ service_identifier \in ServiceIdentifiers
    /\ service_list \in UNION {[1..n -> ListedInstances] : n \in 0..MaxInstances}
    /\ service_uuid = Raised
    /\ RequestIdle
    /\ CollaboratorsIdle

\* The listing request succeeds and lists service_list.
ResolveListed ==
    /\ pc = "resolve"
    /\ service_uuid' = ResolveServiceIdentifier(service_identifier, service_list)
    /\ pc' = "resolved"
    /\ UNCHANGED <<job_id, nSubmits, loopVars, download_url, fileVars, analysis_result,
                   result, abandoned, extractVars, dateVars,
                   service_identifier, service_list, requestVars,
                   collabVars>>

\* The listing request fails: search_result has no "instances".
ResolveListFailed ==
    /\ pc = "resolve"
    /\ service_uuid' = ResolveServiceIdentifier(service_identifier, <<>>)
    /\ pc' = "unlisted"
    /\ UNCHANGED <<job_id, nSubmits, loopVars, download_url, fileVars, analysis_result,
                   result, abandoned, extractVars, dateVars,
                   service_identifier, service_list, requestVars,
                   collabVars>>

NextResolve == ResolveListed \/ ResolveListFailed

SpecResolve == InitResolve /\ [][NextResolve]_vars

-----------------------------------------------------------------------------
\* SpecRequest: one get_logs or generate_export call of manage_audit_logs,
\* up to the response to the export submission

\* service_name, resource_id and source_filter as callers give them
IdentifierChoices ==
    LET Ids(n, r, f) == [service_name |-> n, resource_id |-> r,
                         source_filter |-> f]
    IN {Ids(n, <<>>, <<>>) :
            n \in {<<>>, <<"S", "v", "c">>, <<"k", "v">>, <<"d", "b">>,
                   <<"s", "f">>, <<"x">>, <<"uuid:svc3">>}}
       \cup {Ids(<<>>, <<"uuid:svc2">>, <<>>)}
       \cup {Ids(<<>>, <<>>, f) :
                f \in {<<"cdsp">>, <<"thales/cloudhsm/", "7">>, <<"k", "v">>}}
       \cup {Ids(<<"k", "v">>, <<>>, <<"cdsp">>),
             Ids(<<"S", "v", "c">>, <<"uuid:svc2">>, <<>>)}

StartDates ==
    { <<>>,
      <<"2", "0", "2", "5", "-", "0", "4", "-", "0", "1">>,
      <<"2", "0", "2", "5">>,
      <<"2", "0", "2", "5", " ", " ", " ", " ", " ", " ", " ", " ", " ", " ",
        " ", " ", " ", " ", " ", " ">>,
      <<"2", "0", "2", "5", "/", "0", "4", "/", "0", "1", "T", "0", "0", ":",
        "0", "0", ":", "0", "0">> }

EndDates ==
    { <<>>, <<"2", "0", "2", "5", "-", "0", "4", "-", "3", "0">>, <<"x">> }

\* The requests of the model: every combination of the fields for the two
\* actions that start an export, and the requests for an existing export
\* with and without a service and an actor.
Requests ==
    {[action |-> a, service_name |-> i.service_name,
      resource_id |-> i.resource_id, source_filter |-> i.source_filter,
      actor_id |-> actor, start_date |-> sd, end_date |-> ed,
      tenant_id |-> t, export_id |-> <<>>, read_only_mode |-> ro] :
        a \in {"get_logs", "generate_export"}, i \in IdentifierChoices,
        actor \in {<<>>, <<"alice">>, <<"client1">>, <<"client2">>,
                   <<"uuid:client1">>},
        sd \in StartDates, ed \in EndDates,
        t \in {<<>>, <<"uuid:tenant">>, <<"t", "1">>}, ro \in BOOLEAN}
    \cup
    {[action |-> a, service_name |-> n, resource_id |-> <<>>,
      source_filter |-> <<>>, actor_id |-> actor, start_date |-> <<>>,
      end_date |-> <<>>, tenant_id |-> <<>>, export_id |-> e,
      read_only_mode |-> ro] :
        a \in ReadActions, n \in {<<>>, <<"k", "v">>},
        actor \in {<<>>, <<"client1">>},
        e \in {<<>>, <<"uuid:job1">>, <<"j">>}, ro \in BOOLEAN}

InitRequest ==
    /\ pc = "request"
    /\ RunIdle
    /\ ResolveIdle
    /\ CollaboratorsIdle
    /\ req \in Requests
    /\ args = NoArgs
    /\ export_data = NoExport
    /\ calls = <<>>

\* manage_audit_logs up to the call of the workflow or of
\* _generate_audit_log_export: token validation, the read-only gate, the
\* identifier check, the date conversion and the actor resolution.
ManageAuditLogs ==
    /\ pc = "request"
    /\ \E tokenValid \in BOOLEAN, ok \in [1..5 -> BOOLEAN] :
         IF ~tokenValid
         THEN Return(Failure("Authentication failed")) /\ UNCHANGED <<args, calls>>
         ELSE IF req.action \in WriteActions /\ req.read_only_mode
         THEN /\ Return(ReadOnlyRejection)
              /\ UNCHANGED <<args, calls>>
         ELSE IF ServiceIdentifierCount(req) > 1
         THEN /\ Return(Failure("Cannot specify multiple service identifiers"))
              /\ UNCHANGED <<args, calls>>
         ELSE LET svc == ResolvedService(req)
                  actor == ResolvedActorId(svc.name, req.actor_id, ok)
                  dates == [start_date |->
                               ConvertDateFormat(req.start_date, TRUE),
                            end_date |->
                               ConvertDateFormat(req.end_date, FALSE),
                            tenant_id |-> req.tenant_id,
                            resource_id |-> <<>>]
              IN /\ calls' = actor.calls
                 /\ UNCHANGED result
                 /\ IF req.action = "get_logs"
                    THEN /\ pc' = "workflow"
                         /\ args' = dates @@ [service_name |-> svc.name,
                                             source |-> svc.source,
                                             actor_id |-> actor.id]
                    ELSE IF req.action = "generate_export"
                    THEN /\ pc' = "generate"
                         /\ args' = dates @@ [service_name |-> <<>>,
                                             source |-> <<>>,
                                             actor_id |-> <<>>]
                    ELSE /\ pc' = IF req.export_id = <<>> THEN "raised"
                                  ELSE "get_export"
                         /\ UNCHANGED args
    /\ UNCHANGED <<job_id, nSubmits, loopVars, download_url, fileVars, analysis_result,
                   abandoned, extractVars, dateVars, resolveVars, req,
                   export_data, collabVars>>

\* Steps 1 and 2 of the workflow: the default window when a date is missing,
\* then _detect_service_details when a service is named.
WorkflowDetectService ==
    /\ pc = "workflow"
    /\ LET dated == IF args.start_date = <<>> \/ args.end_date = <<>>
                    THEN [args EXCEPT !.start_date = DefaultDate("1"),
                                      !.end_date = DefaultDate("8")]
                    ELSE args
       IN IF args.service_name = <<>>
          THEN /\ args' = dated
               /\ pc' = "generate"
               /\ UNCHANGED <<result, calls>>
          ELSE \E listOk \in BOOLEAN, allOk \in BOOLEAN :
                 LET d == DetectServiceDetails(args.service_name, listOk, allOk)
                 IN /\ calls' = calls \o d.calls
                    /\ IF d.ok
                       THEN /\ args' = [dated EXCEPT !.source = d.source,
                                            !.resource_id = d.resource_id]
                            /\ pc' = "generate"
                            /\ UNCHANGED result
                       ELSE /\ Return(Failure("Could not find service"))
                            /\ UNCHANGED args
    /\ UNCHANGED <<job_id, nSubmits, loopVars, download_url, fileVars, analysis_result,
                   abandoned, extractVars, dateVars, resolveVars, req,
                   export_data, collabVars>>

\* _generate_audit_log_export: the checks, then the POST and its response.
GenerateAuditLogExport ==
    /\ pc = "generate"
    /\ IF ExportValidation(args) # NoneVal
       THEN /\ Return(Failure(ExportValidation(args)))
            /\ UNCHANGED <<export_data, calls>>
       ELSE /\ export_data' = ExportData(args)
            /\ \/ /\ calls' = Append(calls, Call(PostExport, TRUE))
                  /\ pc' = "posted"
                  /\ UNCHANGED result
               \/ /\ calls' = Append(calls, Call(PostExport, FALSE))
                  /\ Return(Failure("Failed to generate audit log export"))
    /\ UNCHANGED <<job_id, nSubmits, loopVars, download_url, fileVars, analysis_result,
                   abandoned, extractVars, dateVars, resolveVars, req, args,
                   collabVars>>

\* _get_audit_log_export, which get_export, get_result and get_status all
\* end in: validate_uuid, then the GET of the job.
GetAuditLogExport ==
    /\ pc = "get_export"
    /\ IF ~IsUuidText(req.export_id)
       THEN Return(Failure("Validation error")) /\ UNCHANGED calls
       ELSE \/ /\ calls' = Append(calls, Call(GetExportJob, TRUE))
               /\ Return(Success)
            \/ /\ calls' = Append(calls, Call(GetExportJob, FALSE))
               /\ Return(Failure("Failed to get audit log export"))
    /\ UNCHANGED <<job_id, nSubmits, loopVars, download_url, fileVars,
                   analysis_result, abandoned, extractVars, dateVars,
                   resolveVars, req, args, export_data, collabVars>>

NextRequest ==
    \/ ManageAuditLogs
    \/ WorkflowDetectService
    \/ GenerateAuditLogExport
    \/ GetAuditLogExport

SpecRequest == InitRequest /\ [][NextRequest]_vars

-----------------------------------------------------------------------------
\* SpecGate: one call of a tool through the scope_validate wrapper

\* The scope lists a token can carry: up to MaxScopes distinct names.
TokenScopes ==
    {sc \in UNION {[1..n -> ScopeNames] : n \in 0..MaxScopes} :
        \A i, j \in DOMAIN sc : i # j => sc[i] # sc[j]}

\* What validate_token_permissions can tell detect_scopes.
TokenInfos == [valid : BOOLEAN, scopes : TokenScopes]

WrappedTools == DOMAIN ToolScopeMappings \cup {"manage_pricing"}

GateActions == AuditActions \cup {"list", "get", "list_types", ""}

\* The manager is as __init__ left it, or as a detection left it.
InitGate ==
    /\ pc = "gate"
    /\ RunIdle
    /\ ResolveIdle
    /\ RequestIdle
    /\ scope_manager \in {DetectScopes(NoScopes, t) : t \in TokenInfos}
    /\ invocation \in [tool : WrappedTools, action : GateActions]
    /\ gate = NotGated
    /\ ConcurrentIdle
    /\ AuthIdle

\* A global tool or a global action: the body is awaited at once.
WrapperBypass ==
    /\ pc = "gate"
    /\ Bypasses(invocation.tool, invocation.action)
    /\ gate' = Invoked
    /\ pc' = "gated"
    /\ UNCHANGED <<job_id, nSubmits, loopVars, download_url, fileVars, analysis_result,
                   result, abandoned, extractVars, dateVars, resolveVars,
                   requestVars, scope_manager, invocation, concVars,
                   authVars>>

\* No scopes are stored: await detect_scopes(), which catches its own
\* exceptions.
WrapperRefresh ==
    /\ pc = "gate"
    /\ ~Bypasses(invocation.tool, invocation.action)
    /\ scope_manager.detected_scopes = <<>>
    /\ \E t \in TokenInfos : scope_manager' = DetectScopes(scope_manager, t)
    /\ pc' = "validate"
    /\ UNCHANGED <<job_id, nSubmits, loopVars, download_url, fileVars, analysis_result,
                   result, abandoned, extractVars, dateVars, resolveVars,
                   requestVars, invocation, gate, concVars, authVars>>

\* The checks of the API scopes, of the tool and of the action, and the call
\* of the body when they pass.
WrapperValidate ==
    /\ \/ pc = "validate"
       \/ /\ pc = "gate"
          /\ ~Bypasses(invocation.tool, invocation.action)
          /\ scope_manager.detected_scopes # <<>>
    /\ gate' = ScopeDecision(scope_manager, invocation.tool, invocation.action)
    /\ pc' = "gated"
    /\ UNCHANGED <<job_id, nSubmits, loopVars, download_url, fileVars, analysis_result,
                   result, abandoned, extractVars, dateVars, resolveVars,
                   requestVars, scope_manager, invocation, concVars,
                   authVars>>

NextGate ==
    \/ WrapperBypass
    \/ WrapperRefresh
    \/ WrapperValidate

SpecGate == InitGate /\ [][NextGate]_vars

-----------------------------------------------------------------------------
\* SpecConcurrent: MaxRuns get_logs invocations, interleaved at their awaits

InitConcurrent ==
    /\ pc = "concurrent"
    /\ RunIdle
    /\ ResolveIdle
    /\ RequestIdle
    /\ GateIdle
    /\ ConcurrentIdle
    /\ AuthIdle

\* what the invocations of SpecConcurrent leave alone
restVars == <<runVars, extractVars, dateVars, resolveVars, requestVars,
              gateVars, authVars>>

\* Step 3 of run r: the service creates a job under an id it has not issued
\* and answers with it, or the submission fails.
RunSubmit ==
    \E r \in Runs :
        /\ runs[r].pc = "start"
        /\ \/ \E j \in {i \in JobIds : jobs[i] = 0} :
                /\ jobs' = [jobs EXCEPT ![j] = r]
                /\ runs' = [runs EXCEPT ![r].job_id = j, ![r].pc = "wait"]
           \/ /\ runs' = [runs EXCEPT ![r].pc = "done"]
              /\ UNCHANGED jobs
        /\ UNCHANGED <<disk, restVars>>

\* Step 4 of run r: GET /v1/audit-log-exports/{job_id} with its own job_id;
\* the answer names the location of that job, ends the run, or neither.
RunPoll ==
    \E r \in Runs :
        /\ runs[r].pc = "wait"
        /\ \/ runs' = [runs EXCEPT ![r].download_url = LocationOf(runs[r].job_id),
                                    ![r].pc = "create"]
           \/ runs' = [runs EXCEPT ![r].pc = "done"]
           \/ UNCHANGED runs
        /\ UNCHANGED <<disk, jobs, restVars>>

\* Step 5 of run r: the temporary file is created and closed.
RunCreateTemp ==
    \E r \in Runs :
        /\ runs[r].pc = "create"
        /\ \E p \in TempNames(disk) :
              /\ disk' = [disk EXCEPT ![p] = [exists |-> TRUE, owner |-> r,
                                              content |-> 0]]
              /\ runs' = [runs EXCEPT ![r].temp_file_path = p,
                                      ![r].pc = "fetch"]
        /\ UNCHANGED <<jobs, restVars>>

\* open(temp_file_path, 'wb') and the stream of download_url, then the
\* extraction in place: the file of that name is created or overwritten.
RunFetch ==
    \E r \in Runs :
        /\ runs[r].pc = "fetch"
        /\ LET p == runs[r].temp_file_path
           IN disk' = [disk EXCEPT ![p].exists = TRUE,
                                   ![p].owner = IF disk[p].exists
                                                THEN disk[p].owner ELSE r,
                                   ![p].content = ArtifactAt(runs[r].download_url)]
        /\ runs' = [runs EXCEPT ![r].pc = "analyze"]
        /\ UNCHANGED <<jobs, restVars>>

\* The download fails: os.unlink(temp_file_path), return None.
RunFetchFails ==
    \E r \in Runs :
        /\ runs[r].pc = "fetch"
        /\ disk' = [disk EXCEPT ![runs[r].temp_file_path] = NoFile]
        /\ runs' = [runs EXCEPT ![r].temp_file_path = 0, ![r].pc = "done"]
        /\ UNCHANGED <<jobs, restVars>>

\* Step 6 of run r: the analyzer reads temp_file_path, then os.unlink.
RunAnalyze ==
    \E r \in Runs :
        /\ runs[r].pc = "analyze"
        /\ runs' = [runs EXCEPT ![r].read = disk[runs[r].temp_file_path].content,
                                ![r].pc = "done"]
        /\ disk' = [disk EXCEPT ![runs[r].temp_file_path] = NoFile]
        /\ UNCHANGED <<jobs, restVars>>

\* The caller abandons run r at an await.
RunAbandon ==
    \E r \in Runs :
        /\ runs[r].pc \in {"start", "wait", "fetch"}
        /\ runs' = [runs EXCEPT ![r].pc = "cancelled"]
        /\ UNCHANGED <<disk, jobs, restVars>>

NextConcurrent ==
    \/ RunSubmit
    \/ RunPoll
    \/ RunCreateTemp
    \/ RunFetch
    \/ RunFetchFails
    \/ RunAnalyze
    \/ RunAbandon

SpecConcurrent == InitConcurrent /\ [][NextConcurrent]_vars

-----------------------------------------------------------------------------
\* SpecAuth: one call of make_authenticated_request

ApiEndpoints == {"POST /v1/audit-log-exports", "GET /v1/audit-log-exports/{id}",
                 "GET /v1/service_instances"}

InitAuth ==
    /\ pc = "ensure"
    /\ RunIdle
    /\ ResolveIdle
    /\ RequestIdle
    /\ GateIdle
    /\ ConcurrentIdle
    /\ access_token \in {"none", "expired", "valid"}
    /\ auth_call \in {[NoCall EXCEPT !.endpoint = e] : e \in ApiEndpoints}

\* what a call of make_authenticated_request leaves alone
callerVars == <<job_id, nSubmits, loopVars, download_url, fileVars,
                analysis_result, result, abandoned, extractVars, dateVars,
                resolveVars, requestVars, gateVars, concVars>>

\* await self.ensure_valid_token(): nothing to do for a valid token, else
\* _refresh_token, whose exception leaves the call.
EnsureValidToken ==
    /\ pc = "ensure"
    /\ IF NeedsToken(access_token)
       THEN /\ \E o \in RefreshOutcomes :
                 /\ access_token' = TokenAfterRefresh(access_token, o)
                 /\ pc' = IF o = "ok" THEN "send" ELSE "raised"
            /\ auth_call' = [auth_call EXCEPT !.refreshes = @ + 1]
       ELSE pc' = "send" /\ UNCHANGED <<access_token, auth_call>>
    /\ UNCHANGED callerVars

\* The first self.http_client.request is answered.
FirstResponse ==
    /\ pc = "send"
    /\ \E st \in ApiStatuses :
         IF RetriesOn(st)
         THEN /\ auth_call' = [auth_call EXCEPT !.sends = @ + 1,
                                                !.first_status = st]
              /\ pc' = "refresh"
         ELSE /\ auth_call' = [auth_call EXCEPT !.sends = @ + 1,
                                                !.first_status = st,
                                                !.returned = st]
              /\ pc' = "responded"
    /\ UNCHANGED <<access_token, callerVars>>

\* A self.http_client.request raises: except Exception, log, raise.
RequestRaises ==
    /\ pc \in {"send", "resend"}
    /\ auth_call' = [auth_call EXCEPT !.sends = @ + 1]
    /\ pc' = "raised"
    /\ UNCHANGED <<access_token, callerVars>>

\* await self._refresh_token() after a 401.
RefreshAfter401 ==
    /\ pc = "refresh"
    /\ \E o \in RefreshOutcomes :
         /\ access_token' = TokenAfterRefresh(access_token, o)
         /\ auth_call' = [auth_call EXCEPT !.retry_refresh = o,
                                           !.refreshes = @ + 1]
         /\ pc' = IF o = "ok" THEN "resend" ELSE "raised"
    /\ UNCHANGED callerVars

\* The retried request is answered: return response.
SecondResponse ==
    /\ pc = "resend"
    /\ \E st \in ApiStatuses :
         auth_call' = [auth_call EXCEPT !.sends = @ + 1,
                                        !.second_status = st,
                                        !.returned = st]
    /\ pc' = "responded"
    /\ UNCHANGED <<access_token, callerVars>>

NextAuth ==
    \/ EnsureValidToken
    \/ FirstResponse
    \/ RequestRaises
    \/ RefreshAfter401
    \/ SecondResponse

SpecAuth == InitAuth /\ [][NextAuth]_vars

-----------------------------------------------------------------------------
\* Vocabulary of the properties

\* The latest poll response is a 200 response reporting one of these states.
Reported(states) ==
    resp.kind = "http" /\ resp.status = 200 /\ resp.state \in states

\* The poll loop is going on: a request is in flight, or the loop sleeps, or
\* it is about to test its while condition.
InPollLoop == pc \in {"wait_check", "poll_req", "poll_sleep"}

\* The workflow has returned a value to manage_audit_logs.
Returned == pc = "returned"

\* What the workflow returns for a run whose poll reports the state st and no
\* location: the value returned after the poll loop handed back
\* PollDecision's url for that response.
ResultOfRemoteState(st) ==
    IF Falsy(PollDecision(HttpResp(200, st, NoneVal)).url)
    THEN NoUrlResult ELSE Success

\* The most status requests a loop of max_wait_time seconds can send when
\* every iteration sleeps PollInterval seconds.
MaxPollCount == (max_wait_time + PollInterval - 1) \div PollInterval

\* Lines of a file as the analyzer sees them.
NonBlankLines(f) ==
    LET ls == ReadLines(f)
    IN {i \in DOMAIN ls : Strip(ls[i]) # <<>>}

DecodableLines(f) ==
    LET ls == ReadLines(f)
    IN {i \in NonBlankLines(f) : JsonLoads(Strip(ls[i])).ok}

Analyzed == pc \in {"finish", "returned"} /\ temp_file_path = "tmp"

HistogramsSumTo(a, n) ==
    /\ SumCounts(a.actions) = n
    /\ SumCounts(a.statuses) = n
    /\ SumCounts(a.sources) = n

-----------------------------------------------------------------------------
\* Properties

\* C1: a run whose polls all reported ACTIVE until the polling budget was
\* exhausted returns a result different from the result of a run whose job was
\* reported FAILED or CANCELLED.
C1_TimeoutDistinct ==
    (Returned /\ timed_out /\ allActive) =>
        \A st \in {"FAILED", "CANCELLED"} : result # ResultOfRemoteState(st)

\* C2: a non-2xx response to the status request does not end the poll loop:
\* after such a response the loop is left only through the exhausted budget.
C2_NonOkPollBacksOff ==
    (pc \in {"wait_return", "returned"} /\ resp.kind = "http"
        /\ resp.status \notin 200..299) => timed_out

\* C3 as claimed: once a poll has reported SUCCEEDED, FAILED or CANCELLED the
\* loop does not go on (no further status request), SUCCEEDED returns the
\* location of that response, FAILED and CANCELLED fail the run.
C3_StopsAtTerminal ==
    /\ InPollLoop => ~Reported({"SUCCEEDED", "FAILED", "CANCELLED"})
    /\ (pc = "wait_return" /\ Reported({"SUCCEEDED"}))
          => download_url = resp.location
    /\ (pc \in {"wait_return", "returned"} /\ Reported({"FAILED", "CANCELLED"}))
          => (Falsy(download_url) /\ (Returned => ~result.success))

\* C3 as amended: once a poll has reported FAILED, CANCELLED, or SUCCEEDED
\* with a non-empty location, the loop does not go on; SUCCEEDED with a
\* location returns that location, FAILED and CANCELLED fail the run.
C3_StopsAtTerminalWithLocation ==
    /\ InPollLoop =>
          ~(Reported({"FAILED", "CANCELLED"})
            \/ (Reported({"SUCCEEDED"}) /\ ~Falsy(resp.location)))
    /\ (pc = "wait_return" /\ Reported({"SUCCEEDED"}) /\ ~Falsy(resp.location))
          => download_url = resp.location
    /\ (pc \in {"wait_return", "returned"} /\ Reported({"FAILED", "CANCELLED"}))
          => (Falsy(download_url) /\ (Returned => ~result.success))

\* C3 witness: the loop returned the location of a SUCCEEDED response after
\* more than one poll.
C3_Witness ==
    /\ pc = "wait_return"
    /\ Reported({"SUCCEEDED"})
    /\ download_url = "loc2"
    /\ nPolls > 1

\* C4: no status request is started once the elapsed time has reached the
\* budget, the loop sends a bounded number of requests, and it returns before
\* the budget plus one poll interval plus the last round trip has elapsed.
C4_PollLoopBounded ==
    /\ pc = "poll_req" => elapsed < max_wait_time
    /\ nPolls <= MaxPollCount
    /\ pc = "wait_return" => elapsed < max_wait_time + PollInterval + rtt

\* C4 witness: the loop timed out later than the budget plus one interval.
C4_Witness ==
    /\ pc = "wait_return"
    /\ timed_out
    /\ nPolls > 1
    /\ elapsed > max_wait_time + PollInterval

C6_AbandonCleansUp ==
    abandoned => (pc = "cancelled" /\ ~fileExists)

C8_GzipTransparent ==
    (plainOut # NotRun /\ gzOut # NotRun) => plainOut = gzOut

\* C9: when every non-blank line of the file parses as JSON, total_logs is
\* the number of non-blank lines and each histogram sums to total_logs.
C9_TotalsAddUp ==
    (Analyzed /\ DecodableLines(file) = NonBlankLines(file)) =>
        /\ analysis_result.total_logs = Cardinality(NonBlankLines(file))
        /\ HistogramsSumTo(analysis_result, analysis_result.total_logs)

\* C10: for a file with n non-blank lines of which k fail to decode, the
\* analyzer reports no error, total_logs = n - k, and histograms over the
\* decodable lines.
C10_MalformedDropped ==
    Analyzed =>
        /\ analysis_result.error = NoneVal
        /\ analysis_result.total_logs = Cardinality(DecodableLines(file))
        /\ HistogramsSumTo(analysis_result, Cardinality(DecodableLines(file)))

\* C11: the run on the scenario export (ten "Create Key" / success records,
\* two "Delete User" / failure records) returns total_logs = 12, a count of
\* 10 for "Create Key", a count of 2 for "failure" and a formatted summary
\* that is a report naming "Create Key"; and every run whose analysis
\* produced a summary of at least one record returns a rendered report.
C11_ScenarioAndFormatter ==
    /\ (Returned /\ result.success /\ file = ScenarioExport) =>
          /\ result.analysis.total_logs = 12
          /\ result.analysis.all_actions["Create Key"].count = 10
          /\ result.analysis.statuses["failure"] = 2
          /\ result.formatted_summary.kind = "report"
          /\ "Create Key" \in result.formatted_summary.actions
    /\ (Returned /\ result.success /\ result.analysis.error = NoneVal
          /\ result.analysis.total_logs > 0) =>
          result.formatted_summary.kind = "report"

\* A 10-character calendar date: YYYY-MM-DD or YYYY/MM/DD.
IsCalendarDate(str) ==
    /\ Len(str) = 10
    /\ \E sep \in {"-", "/"} : str[5] = sep /\ str[8] = sep
    /\ \A i \in {1, 2, 3, 4, 6, 7, 9, 10} : IsDigit(str[i])

\* The string with every "/" written as "-".
Dashed(str) == [i \in DOMAIN str |-> IF str[i] = "/" THEN "-" ELSE str[i]]

\* C12: for an input that contains 'T', normalizing the result again with the
\* same role flag returns the result, and the result ends in 'Z' and is the
\* input with '/' written as '-' up to that trailing 'Z'.
C12_TimestampFixedPoint ==
    (pc = "renormalized" /\ HasTime(date_str)) =>
        /\ renormalized = normalized
        /\ normalized[Len(normalized)] = "Z"
        /\ normalized \in {Dashed(date_str), Append(Dashed(date_str), "Z")}

\* C12 witness: a timestamp written with '/' and without 'Z' was normalized
\* twice as an end date.
C12_Witness ==
    /\ pc = "renormalized"
    /\ ~is_start_date
    /\ date_str = <<"2", "0", "2", "5", "/", "0", "4", "/", "0", "1",
                    "T", "1", "2", ":", "3", "0", ":", "0", "0">>
    /\ normalized # date_str

\* C13: a 10-character calendar date normalized as a start date is that date
\* with '-' separators followed by T00:00:00Z, and normalized as an end date
\* is that date followed by T23:59:59Z.
C13_InclusiveDayWindow ==
    (pc # "date" /\ IsCalendarDate(date_str)) =>
        normalized = Dashed(date_str) \o
            (IF is_start_date
             THEN <<"T", "0", "0", ":", "0", "0", ":", "0", "0", "Z">>
             ELSE <<"T", "2", "3", ":", "5", "9", ":", "5", "9", "Z">>)

\* C13 witness: 2025/04/01 was normalized as an end date.
C13_Witness ==
    /\ pc = "normalized"
    /\ ~is_start_date
    /\ date_str = <<"2", "0", "2", "5", "/", "0", "4", "/", "0", "1">>
    /\ Len(normalized) = 20

\* C14: an input that neither contains 'T' nor is a 10-character calendar
\* date is returned unchanged (the normalizer has no raising outcome).
C14_PassThrough ==
    (pc # "date" /\ ~HasTime(date_str) /\ ~IsCalendarDate(date_str)) =>
        normalized = date_str

\* The instances of the listing named exactly, and those named up to case.
ExactlyNamed == {i \in DOMAIN service_list :
                    service_list[i].name = service_identifier}

NamedUpToCase == {i \in DOMAIN service_list :
                    /\ service_list[i].name # service_identifier
                    /\ Lower(service_list[i].name) = Lower(service_identifier)}

IdsOf(indices) == {service_list[i].service_id : i \in indices}

\* C15: when the listing holds an instance named exactly like the requested
\* name, the resolution returns the identifier of such an instance wherever
\* it stands in the listing (and raises only if one of them has none); an
\* instance that matches up to case only is returned only when no instance
\* matches exactly.
C15_ExactBeforeCaseInsensitive ==
    (pc = "resolved" /\ service_identifier # <<>>
        /\ ~IsUuidText(service_identifier)) =>
        /\ ExactlyNamed # {} =>
              /\ service_uuid.ok => service_uuid.id \in IdsOf(ExactlyNamed)
              /\ <<>> \notin IdsOf(ExactlyNamed) => service_uuid.ok
        /\ (ExactlyNamed = {} /\ NamedUpToCase # {}) =>
              /\ service_uuid.ok => service_uuid.id \in IdsOf(NamedUpToCase)
              /\ <<>> \notin IdsOf(NamedUpToCase) => service_uuid.ok
        /\ (ExactlyNamed = {} /\ NamedUpToCase = {}) => ~service_uuid.ok

\* C15 witness: "svc" stands before "Svc" in the listing, "Svc" is asked for
\* and the identifier of "Svc" is returned.
C15_Witness ==
    /\ pc = "resolved"
    /\ service_identifier = <<"S", "v", "c">>
    /\ Len(service_list) >= 2
    /\ service_list[1].name = <<"s", "v", "c">>
    /\ service_list[1].service_id = <<"uuid:svc2">>
    /\ service_list[2].name = <<"S", "v", "c">>
    /\ service_uuid = Resolved(<<"uuid:svc1">>)

\* The export of a get_logs request that named a service has been submitted.
SubmittedForService ==
    /\ export_data # NoExport
    /\ req.action = "get_logs"
    /\ args.resource_id # <<>>

\* The instance the named service was resolved to.
NamedInstance == TenantInstances[InstanceOf(args.resource_id)]

\* The requests sent so far.
Requested == {calls[i].request : i \in DOMAIN calls}

\* The submitted export carries this filter with this value.
Filters(key, value) == key \in DOMAIN export_data /\ export_data[key] = value

\* The ids of the bindings named exactly like the actor of the request.
BindingIds == {TenantBindings[i].id : i \in {j \in DOMAIN TenantBindings :
                                        TenantBindings[j].name = req.actor_id}}

\* C16: the export submitted for a get_logs request that names a ctaas
\* service and gives an actor was prepared without a client lookup and
\* carries the actor string as its actorId.
C16_CtaasActorVerbatim ==
    (SubmittedForService /\ NamedInstance.serviceType = "ctaas"
        /\ req.actor_id # <<>>) =>
        /\ ListBindings \notin Requested
        /\ Filters("actorId", req.actor_id)

\* Every lookup sent so far (every request but the submission) was answered.
LookupsAnswered ==
    \A i \in DOMAIN calls : calls[i].request # PostExport => calls[i].ok

\* C17: the export submitted for a get_logs request that names a service and
\* gives an actor carries an actorId; for an HSM-family service it is the id
\* of the binding named exactly like the actor when every lookup was
\* answered and such a binding with an id exists, and the actor string
\* itself in every other case; for a service of any other type it is the
\* actor string and no client lookup was sent.
C17_HsmActorResolved ==
    (SubmittedForService /\ req.actor_id # <<>>) =>
        /\ InHsmFamily(NamedInstance.serviceType) =>
              IF LookupsAnswered /\ BindingIds \ {<<>>} # {}
              THEN \E id \in BindingIds : Filters("actorId", id)
              ELSE Filters("actorId", req.actor_id)
        /\ ~InHsmFamily(NamedInstance.serviceType) =>
              /\ Filters("actorId", req.actor_id)
              /\ ListBindings \notin Requested

\* C18: the export submitted for a resolved service carries source cdsp for
\* a ctaas service, else thales/cloudhsm/<serial> for a service with a
\* partition serial, else no source and the resolved resource id as its
\* resourceId filter.
C18_SourceOrResourceId ==
    SubmittedForService =>
        IF NamedInstance.serviceType = "ctaas"
        THEN Filters("source", <<"cdsp">>)
        ELSE IF NamedInstance.partition_serial_number # <<>>
        THEN Filters("source", <<"thales/cloudhsm/">>
                                  \o NamedInstance.partition_serial_number)
        ELSE /\ "source" \notin DOMAIN export_data
             /\ Filters("resourceId", args.resource_id)

\* A date as manage_audit_logs normalizes it for its role.
NormalizedDate(text, is_start) == ConvertDateFormat(text, is_start)

\* A required field of the request is missing or malformed.
Malformed ==
    \/ req.tenant_id # <<>> /\ ~IsUuidText(req.tenant_id)
    \/ req.start_date # <<>>
          /\ Len(NormalizedDate(req.start_date, TRUE)) < MinDateLength
    \/ req.end_date # <<>>
          /\ Len(NormalizedDate(req.end_date, FALSE)) < MinDateLength
    \/ req.action = "generate_export"
          /\ (req.start_date = <<>> \/ req.end_date = <<>>)

\* C19: no request is sent to the API for a request with a missing or
\* malformed required field, such a request ends in a failure, and no
\* export is submitted with a from or to shorter than the minimum length.
C19_ValidationBeforeNetwork ==
    /\ Malformed => (calls = <<>> /\ pc # "posted"
                        /\ (Returned => ~result.success))
    /\ export_data # NoExport =>
          /\ Len(export_data.from) >= MinDateLength
          /\ Len(export_data.to) >= MinDateLength

\* C20: a run that returns after a failure of one of its stages (no job id,
\* no download URL, no downloaded file, an analysis that failed) returns
\* success = false with an error; it returns success = true only when every
\* stage succeeded.
C20_StructuredErrors ==
    Returned =>
        /\ result.success =>
              /\ ~Falsy(job_id)
              /\ ~Falsy(download_url)
              /\ ~Falsy(temp_file_path)
              /\ analysis_result.error = NoneVal
        /\ ~result.success => result.error # NoneVal

\* A stage of the run failed: no job id, no download URL, no downloaded
\* file, or an analysis that ended in its except handler.
StageFailed ==
    \/ Falsy(job_id)
    \/ Falsy(download_url)
    \/ Falsy(temp_file_path)
    \/ analysis_result.error # NoneVal

\* The summary of an export without records.
EmptySummary ==
    AnalysisValue(NoneVal, "No audit logs found in the specified time range",
                  0, <<>>)

\* C21: a run whose downloaded file has no line that decodes returns
\* success with a summary of total_logs = 0 and an explanatory message, and
\* no run in which a stage failed returns that value.
C21_EmptyIsNotAnError ==
    Returned =>
        /\ (Analyzed /\ Utf8Valid(file) /\ DecodableLines(file) = {}) =>
              /\ result.success
              /\ result.analysis.total_logs = 0
              /\ result.analysis.message # NoneVal
              /\ result.analysis.error = NoneVal
              /\ result.formatted_summary.kind = "empty"
        /\ StageFailed => result # WorkflowSuccess(EmptySummary)

\* A run returned for an artifact that has lines, none of which decodes.
C21_Witness ==
    /\ Returned
    /\ Analyzed
    /\ NonBlankLines(file) # {}
    /\ DecodableLines(file) = {}
    /\ result = WorkflowSuccess(EmptySummary)

\* The wrapper has returned.
Gated == pc = "gated"

\* The wrapped tool is none of the global tools.
NonGlobalTool == invocation.tool \notin GLOBAL_TOOLS

\* C22: for a tool that is not global the body is invoked only if the scope
\* manager allows the tool and the action under the detected primary scope;
\* when the token has no API scope, the tool is not allowed or the action
\* is not allowed, the wrapper returns a scope_restricted error and the body
\* is not invoked.
C22_AuthorizationGate ==
    (Gated /\ NonGlobalTool) =>
        LET permitted ==
                /\ ApiScopes(scope_manager.detected_scopes) # <<>>
                /\ IsToolAllowed(scope_manager, invocation.tool)
                /\ IsActionAllowed(scope_manager, invocation.tool,
                                   invocation.action)
        IN IF permitted THEN gate.invoked
           ELSE ~gate.invoked /\ gate.scope_restricted

\* The source manage_audit_logs derives for an instance.
DerivedSources(instance) ==
    IF instance.serviceType = "ctaas" THEN {<<"cdsp">>}
    ELSE IF instance.partition_serial_number # <<>>
    THEN {<<"thales/cloudhsm/">> \o instance.partition_serial_number}
    ELSE {}

\* The request gives a raw source: source_filter alone, naming cdsp or a
\* partition.
GivesRawSource ==
    /\ req.service_name = <<>>
    /\ req.resource_id = <<>>
    /\ \/ Lower(req.source_filter) = <<"cdsp">>
       \/ req.source_filter # <<>> /\ req.source_filter[1] = "thales/cloudhsm/"

\* The service identifiers the request gives.
IdentifiersGiven ==
    {k \in {"service_name", "resource_id", "source_filter"} : req[k] # <<>>}

\* C24: a request with more than one of service_name, resource_id and
\* source_filter is rejected with success = false and nothing is sent for
\* it; the source of a prepared export is the raw source of a request that
\* resolves no service, or else the source derived from the resolved
\* service, never the caller's text.
C24_FilterExclusivity ==
    /\ (pc # "request" /\ Cardinality(IdentifiersGiven) > 1) =>
          /\ Returned
          /\ ~result.success
          /\ calls = <<>>
          /\ export_data = NoExport
    /\ "source" \in DOMAIN export_data =>
          IF GivesRawSource
          THEN /\ export_data.source = req.source_filter
               /\ args.resource_id = <<>>
               /\ Requested \subseteq {PostExport}
          ELSE /\ SubmittedForService
               /\ export_data.source \in DerivedSources(NamedInstance)

\* A request naming a service and a raw source was rejected.
C24_Witness ==
    /\ Returned
    /\ req.service_name = <<"k", "v">>
    /\ req.source_filter = <<"cdsp">>
    /\ result = Failure("Cannot specify multiple service identifiers")

\* Run r is between the creation of its temporary file and its unlink.
HoldsFile(r) == runs[r].pc \in {"fetch", "analyze"}

\* C25: concurrent runs hold different job ids, each created by the run's
\* own submission, and a run downloads the location of its own job only;
\* while a run holds its temporary file, the file exists, was created by
\* that run and holds nothing but the run's own artifact; the analyzer of a
\* run reads the artifact of the run's own job.
C25_RunIsolation ==
    \A r \in Runs :
        /\ runs[r].job_id # 0 => jobs[runs[r].job_id] = r
        /\ runs[r].download_url # 0 =>
              runs[r].download_url = LocationOf(runs[r].job_id)
        /\ HoldsFile(r) =>
              /\ disk[runs[r].temp_file_path].exists
              /\ disk[runs[r].temp_file_path].owner = r
              /\ disk[runs[r].temp_file_path].content \in {0, runs[r].job_id}
        /\ runs[r].read \in {0, runs[r].job_id}
        /\ \A q \in Runs \ {r} :
              /\ runs[r].job_id # 0 => runs[q].job_id # runs[r].job_id
              /\ (HoldsFile(r) /\ HoldsFile(q)) =>
                    runs[q].temp_file_path # runs[r].temp_file_path

\* All runs hold their temporary files at once, each with the artifact of
\* its own job.
C25_Witness ==
    /\ \A r \in Runs : runs[r].pc = "analyze"
    /\ \A r \in Runs : disk[runs[r].temp_file_path].content = runs[r].job_id

\* The stage a position of the run belongs to, in the order of the workflow.
StageOf(position) ==
    CASE position = "start" -> 0
      [] position = "submit_req" -> 1
      [] position \in {"wait_check", "poll_req", "poll_sleep", "wait_return"} -> 2
      [] position \in {"dl_create", "dl_req", "streaming", "dl_return"} -> 3
      [] position = "analyze" -> 4
      [] position = "finish" -> 5
      [] OTHER -> 6

\* The run is in its download stage.
Downloading == StageOf(pc) = 3

\* C26: a run never goes back to an earlier stage of submit, poll,
\* download, analyze, cleanup; it enters the download stage only from the
\* poll loop, after a response that reported SUCCEEDED and with that
\* response's location as its URL, which it keeps; it analyzes only a file
\* whose path the download stage returned, and the file is unlinked after
\* the analysis.
C26_StageOrder ==
    /\ [][StageOf(pc') >= StageOf(pc)]_vars
    /\ [][(Downloading' /\ ~Downloading) =>
              /\ pc = "wait_return"
              /\ Reported({"SUCCEEDED"})
              /\ ~Falsy(resp.location)
              /\ download_url' = resp.location]_vars
    /\ [][Downloading => download_url' = download_url]_vars
    /\ [](StageOf(pc) \in 2..5 => (~Falsy(job_id) /\ nSubmits = 1))
    /\ [](StageOf(pc) \in 3..5 => ~Falsy(download_url))
    /\ [](StageOf(pc) \in 4..5 => ~Falsy(temp_file_path))
    /\ [](pc = "analyze" => fileExists /\ analysis_result = NoAnalysis)
    /\ [](pc = "finish" => ~fileExists)

\* A run went through every stage with the second location.
C26_Witness ==
    /\ Returned
    /\ result.success
    /\ download_url = "loc2"
    /\ nSubmits = 1
    /\ ~fileExists

\* C27: a call sends its request at most twice; it sends it a second time
\* only after a first response of status 401 and a token refresh that
\* succeeded, and then it does; the status it returns is that of the last
\* response, whatever it is; after a refresh that failed it raises without
\* another send.
C27_SingleRetry ==
    /\ auth_call.sends <= 2
    /\ auth_call.sends = 2 =>
          /\ auth_call.first_status = 401
          /\ auth_call.retry_refresh = "ok"
          /\ access_token = "valid"
    /\ pc = "resend" => (auth_call.sends = 1 /\ auth_call.retry_refresh = "ok")
    /\ pc = "responded" =>
          /\ auth_call.returned =
                IF auth_call.first_status = 401
                THEN auth_call.second_status ELSE auth_call.first_status
          /\ auth_call.returned # 0
          /\ auth_call.first_status = 401 => auth_call.sends = 2
    /\ auth_call.retry_refresh \in {"failed", "no_token"} =>
          (pc = "raised" /\ auth_call.sends = 1)

\* A call returned the 401 of its second request.
C27_Witness ==
    /\ pc = "responded"
    /\ auth_call.sends = 2
    /\ auth_call.returned = 401

\* The index of the i-th line of f that decodes, in file order.
NthDecodable(f, i) ==
    CHOOSE k \in DecodableLines(f) :
        Cardinality({j \in DecodableLines(f) : j <= k}) = i

Served == pc # "request" /\ result # Failure("Authentication failed")

\* C29: in read-only mode a request for generate_export or get_logs whose
\* token validated is rejected with success = false and read_only_mode =
\* true and nothing has been sent or prepared for it; a request for
\* get_export, get_result or get_status is not rejected for the mode, and
\* its job request is sent when it names the job by a UUID.
C29_ReadOnlyMode ==
    (Served /\ req.read_only_mode) =>
        IF req.action \in {"generate_export", "get_logs"}
        THEN /\ Returned
             /\ ~result.success
             /\ result = ReadOnlyRejection
             /\ calls = <<>>
             /\ args = NoArgs
             /\ export_data = NoExport
        ELSE /\ result # ReadOnlyRejection
             /\ (Returned /\ IsUuidText(req.export_id)) =>
                    GetExportJob \in Requested

\* A get_logs request was rejected for the mode.
C29_Witness ==
    /\ Returned
    /\ req.read_only_mode
    /\ req.action = "get_logs"
    /\ req.service_name = <<"k", "v">>
    /\ result = ReadOnlyRejection

\* A get_status request was answered in read-only mode.
ReadPermitted ==
    /\ Returned
    /\ req.read_only_mode
    /\ req.action = "get_status"
    /\ result = Success

\* The latest poll reported SUCCEEDED without a location.
SucceededWithoutLocation == Reported({"SUCCEEDED"}) /\ Falsy(resp.location)

\* C30: while the latest poll response is SUCCEEDED without a location the
\* loop is still going on (it sleeps, tests its budget, polls again) or it
\* has ended through the exhausted budget with no download URL, which fails
\* the run, unless the caller abandoned the run; and what the loop hands to
\* the download is never an empty or missing location.
C30_SucceededNeedsLocation ==
    /\ SucceededWithoutLocation =>
          \/ InPollLoop
          \/ pc = "cancelled" /\ download_url = NoneVal
          \/ /\ pc \in {"wait_return", "returned"}
             /\ timed_out
             /\ download_url = NoneVal
             /\ Returned => result = NoUrlResult
    /\ download_url \in Locations \ {""}
    /\ Downloading => download_url \in {"loc1", "loc2"}

\* A run that was told SUCCEEDED without a location more than once timed out.
C30_Witness ==
    /\ Returned
    /\ timed_out
    /\ nPolls > 1
    /\ resp = HttpResp(200, "SUCCEEDED", "")
    /\ result = NoUrlResult

\* After SUCCEEDED without a location the next status request is in flight.
PolledAgain ==
    /\ pc = "poll_req"
    /\ nPolls > 1
    /\ SucceededWithoutLocation

\* Nothing of the poll loop or of the download has happened.
NothingPolledOrDownloaded ==
    /\ nPolls = 0
    /\ resp = NoResp
    /\ Falsy(download_url)
    /\ sent = 0
    /\ ~fileExists
    /\ Falsy(temp_file_path)

\* C23: a run submits the export once; while it has no job id it has sent
\* no status request and started no download, and a run that returns without
\* a job id returns success = false after that single submission.
C23_SingleSubmit ==
    /\ nSubmits <= 1
    /\ Falsy(job_id) => NothingPolledOrDownloaded
    /\ (Returned /\ Falsy(job_id)) => (~result.success /\ nSubmits = 1)

\* A run returned for a submission that was accepted without a jobId.
C23_Witness ==
    /\ Returned
    /\ nSubmits = 1
    /\ result = Failure("No job ID received from export generation")

-----------------------------------------------------------------------------
\* Auxiliary properties (they hold; they tie the vocabulary above to the run)

\* A run whose last poll reported FAILED or CANCELLED returns the value
\* ResultOfRemoteState names.
RemoteFailureResult ==
    (Returned /\ Reported({"FAILED", "CANCELLED"}))
        => result = ResultOfRemoteState(resp.state)

\* The actor of a request whose service is not of type ctaas is submitted as
\* the id of the exactly named binding (HSM family, every lookup answered,
\* the binding has an id) or as the actor string itself, and no client
\* lookup is sent for a service outside the HSM family.
ActorResolvedOutsideCtaas ==
    (SubmittedForService /\ req.actor_id # <<>>
        /\ NamedInstance.serviceType # "ctaas") =>
        IF InHsmFamily(NamedInstance.serviceType)
        THEN IF LookupsAnswered /\ BindingIds \ {<<>>} # {}
             THEN \E id \in BindingIds : Filters("actorId", id)
             ELSE Filters("actorId", req.actor_id)
        ELSE Filters("actorId", req.actor_id) /\ ListBindings \notin Requested

\* The authorization gate holds for every call whose action is a non-empty
\* string outside GLOBAL_ACTIONS.
GateForOrdinaryActions ==
    (Gated /\ NonGlobalTool /\ ~Falsy(invocation.action)
        /\ invocation.action \notin GLOBAL_ACTIONS) =>
        LET permitted ==
                /\ ApiScopes(scope_manager.detected_scopes) # <<>>
                /\ IsToolAllowed(scope_manager, invocation.tool)
                /\ IsActionAllowed(scope_manager, invocation.tool,
                                   invocation.action)
        IN IF permitted THEN gate.invoked
           ELSE ~gate.invoked /\ gate.scope_restricted

\* A call of manage_audit_logs was blocked for its action: the token holds
\* the service scope only and the action is not get_logs.
ActionBlocked ==
    /\ Gated
    /\ invocation = [tool |-> "manage_audit_logs", action |-> "generate_export"]
    /\ scope_manager.primary_scope = "dpod.tenant.api_service"
    /\ gate = Blocked("Action not allowed")

\* An actor was submitted as the id of the binding of that name.
ActorResolvedToBinding ==
    /\ SubmittedForService
    /\ req.service_name = <<"d", "b">>
    /\ req.actor_id = <<"client1">>
    /\ ListBindings \in Requested
    /\ Filters("actorId", <<"uuid:client1">>)

\* For a file whose decodable lines are all JSON objects the analyzer reports
\* no error, counts the decodable lines and its histograms sum to that count.
TotalsForObjectLines ==
    LET ls == ReadLines(file)
    IN (Analyzed /\ \A i \in DecodableLines(file) : JsonLoads(Strip(ls[i])).isObj)
          => /\ analysis_result.error = NoneVal
             /\ analysis_result.total_logs = Cardinality(DecodableLines(file))
             /\ HistogramsSumTo(analysis_result, analysis_result.total_logs)

====
